---- MODULE Spec2Model ----
(***************************************************************************)
(* PuGoing Home Assistant integration: the cloud API client (token         *)
(* manager, control operations, poll), the vendor transport functions, the *)
(* data update coordinator and the lamp / curtain entities.                *)
(*                                                                         *)
(* Each transport call is one step: the request is in flight in the state  *)
(* before the step and the step consumes the vendor's reply.  Vendor       *)
(* strings are written in ASCII: "kai" stands for the on marker U+5F00,    *)
(* "dakai" for the opened marker U+6253 U+5F00, "guanbi" for the closed    *)
(* marker U+5173 U+95ED, MsgOffline and MsgNoPermission for the two        *)
(* recognised vendor error messages.                                       *)
(***************************************************************************)
EXTENDS Integers, Sequences, FiniteSets, TLC

\* ------------------------------------------------------------------ bounds
NumHosts == 2          \* hosts of the vendor topology walked by a poll
NumRooms == 2          \* rooms per host
TickSpan == 2          \* sampled instants on each side of the expiry edge
MaxNow == 6            \* last second of the entity clock
Margin == 2            \* integers tried on each side of an accepted range
MaxByte == 100         \* largest payload byte decoded by _parse_rgbcw
MaxNowRgbcw == 10      \* last second of the RGBCW entity clock
FanoutRooms == 3       \* rooms of the host whose devices are gathered
ClimateSpan == 1      \* sampled instants on each side of the confirmation edge
ButtonSpan == 1       \* sampled instants on each side of the button's window edge
NumOps == 2           \* client operations awaited side by side
BundleLen == 2        \* control calls of each of them

\* ------------------------------------------------------- program constants
TOKEN_LIFETIME == 86400
TOKEN_BUF == 300
LAMP_STATE_DEBOUNCE_SECONDS == 5
CURTAIN_STATE_DEBOUNCE_SECONDS == 5
VRV_CONFIRM_SECONDS == 10
BUTTON_STATE_DEBOUNCE_SECONDS == 10
INITIAL_TEMPERATURE == 26
RGBCW_DEBOUNCE_SECONDS == 10   \* the literal window of _parse_rgbcw
DEFAULT_MIN_KELVIN == 2000     \* homeassistant.components.light
DEFAULT_MAX_KELVIN == 6535     \* homeassistant.components.light

\* ------------------------------------------------------------ absent values
NoToken == 0           \* self._token is None
NoTs == -1             \* self._token_ts is None / _last_manual_control is None
NoneI == -1000         \* an absent integer argument or value
None == "None"         \* an absent string or boolean argument

MsgOffline == "host offline"
MsgNoPermission == "no permission for host"
MsgOther == "device not found"

TokenValues == {1, 2}  \* bearer strings the vendor may issue

VARIABLES
  now,          \* time.time() / datetime.now(), in seconds
  token,        \* client._token
  token_ts,     \* client._token_ts
  lastLogin,    \* what the last successful vendor login returned, and when
  vendor,       \* the vendor's hosts, rooms, devices and scenes (the environment)
  pc,           \* position of the running client operation
  op,           \* the running (or last finished) client operation
  caller,       \* who awaits it: "client", "coordinator" or an entity handler
  args,         \* its arguments
  tasks,        \* the (command_key, value) bundle built by the operation
  taskIdx,      \* index of the control call in flight
  outcome,      \* how the last operation ended: "none", "ok" or the error
  opStart,      \* token, timestamp and clock seen by _async_ensure_token
  netlog,       \* transport requests issued by the operation, in order
  lastLoginReply, \* vendor reply to the operation's login, "none" if no login
  lastCtl,      \* last control/scene reply and whether the transport raised
  result,       \* the value the operation returns (the snapshot of a poll)
  poll,         \* process_rooms locals: sn_room_list, loop indexes, results
  served,       \* what the vendor returned to the running poll
  data,         \* coordinator.data (last successful snapshot)
  signal,       \* what _async_update_data last signalled upward
  lamp,         \* the PuGoingLampLight entity under observation
  curtain,      \* the PuGoingCurtain entity under observation
  climate,      \* the PuGoingVRVClimate entities
  breaker,      \* the PuGoingBreakerSwitch entities
  button,       \* the PuGoingSceneButton entities, where they are watched
  platform,     \* known_ids of each platform and its entity registry entries
  fanout,       \* a call of get_devices_by_hotel_room_name: its gathered tasks
  running,      \* client operations awaited side by side on the one client
  shown         \* result of the last read of a displayed property

clientVars == <<token, token_ts, lastLogin>>
opVars == <<pc, op, caller, args, tasks, taskIdx, outcome, opStart, netlog,
            lastLoginReply, lastCtl, result>>
pollVars == <<poll, served>>
coordVars == <<data, signal>>
entityVars == <<lamp, curtain, shown>>
platformVars == <<climate, button, platform, breaker>>
libVars == <<fanout, running>>
vars == <<now, vendor, clientVars, opVars, pollVars, coordVars, entityVars,
          platformVars, libVars>>

\* ------------------------------------------------------------------ helpers
Raises(kind) == [raised |-> kind, value |-> <<>>]
Returns(v) == [raised |-> "none", value |-> v]

Digit(d) == CASE d = 0 -> "0" [] d = 1 -> "1" [] d = 2 -> "2" [] d = 3 -> "3"
              [] d = 4 -> "4" [] d = 5 -> "5" [] d = 6 -> "6" [] d = 7 -> "7"
              [] d = 8 -> "8" [] d = 9 -> "9"

RECURSIVE StrNat(_)
StrNat(n) == IF n < 10 THEN <<Digit(n)>> ELSE Append(StrNat(n \div 10), Digit(n % 10))

\* str(n) of a Python int: its decimal digits, "-" first when negative
Str(n) == IF n < 0 THEN <<"-">> \o StrNat(0 - n) ELSE StrNat(n)

\* int(x) of a Python float x = num / den with den > 0: truncation toward zero
IntTrunc(num, den) == IF num >= 0 THEN num \div den ELSE 0 - ((0 - num) \div den)

Upper(c) == CASE c = "a" -> "A" [] c = "b" -> "B" [] c = "c" -> "C"
              [] c = "d" -> "D" [] c = "e" -> "E" [] c = "f" -> "F"
              [] c = "g" -> "G"
              [] OTHER -> c

NoExtra == <<>>        \* digv is None (no command value is the empty string)

\* ------------------------------------------------------ vendor reply menus
\* A reply is what the HTTP layer hands to the transport function: a network
\* failure, a timeout, or an HTTP status with the JSON envelope {ack, msg, ...}.
NetFailures == {[net |-> "error"], [net |-> "timeout"]}

LoginReplies ==
  {[net |-> "ok", http |-> 200, ack |-> 1, tok |-> t] : t \in TokenValues}
  \cup {[net |-> "ok", http |-> 200, ack |-> 0, tok |-> NoToken],
        [net |-> "ok", http |-> 500, ack |-> 0, tok |-> NoToken]}
  \cup NetFailures

AckReplies ==
  {[net |-> "ok", ack |-> 1, msg |-> "ok"]}
  \cup {[net |-> "ok", ack |-> 0, msg |-> m] : m \in {MsgOffline, MsgNoPermission, MsgOther}}
  \cup NetFailures

NetError(r) == IF r.net = "timeout" THEN "TimeoutError" ELSE "ClientError"

\* --------------------------------------------------- pugoing_api transport
login(r) ==
  IF r.net # "ok" THEN Raises(NetError(r))
  ELSE IF r.http # 200 THEN Raises("Exception")
  ELSE IF r.ack = 1 THEN Returns(r.tok)
  ELSE Raises("Exception")

control_device_swallow(r) ==
  IF r.net # "ok" THEN Raises(NetError(r)) ELSE Returns(r.ack)

control_device(r) ==
  IF r.net # "ok" THEN Raises(NetError(r))
  ELSE IF r.ack = 0
    THEN IF r.msg = MsgOffline THEN Raises("DeviceOfflineError")
         ELSE IF r.msg = MsgNoPermission THEN Raises("NoPermissionError")
         ELSE Returns(r.ack)
    ELSE Returns(r.ack)

execute_scene(r) ==
  IF r.net # "ok" THEN Raises(NetError(r))
  ELSE IF r.ack = 1 THEN Returns(r.ack)
  ELSE Raises("PuGoingInvalidResponseError")

\* ----------------------------------------------------------- token manager
\* the condition of _async_ensure_token
TokenExpiredNoneUnchecked(tok, ts, t) == (t - ts) > (TOKEN_LIFETIME - TOKEN_BUF)

TokenExpiredLate(tok, ts, t) ==
  tok = NoToken \/ ts = NoTs \/ (t - ts) > TOKEN_LIFETIME

TokenExpired(tok, ts, t) ==
  tok = NoToken \/ ts = NoTs \/ (t - ts) > (TOKEN_LIFETIME - TOKEN_BUF)

\* _async_login: the token and its timestamp after the attempt, and the error
async_login_ts_first(tok, ts, r, t) ==
  LET res == login(r) IN
    IF res.raised = "none"
      THEN [token |-> res.value, token_ts |-> t, raised |-> "none"]
      ELSE [token |-> tok, token_ts |-> t, raised |-> "AuthenticationError"]

async_login_unwrapped(tok, ts, r, t) ==
  LET res == login(r) IN
    IF res.raised = "none"
      THEN [token |-> res.value, token_ts |-> t, raised |-> "none"]
      ELSE [token |-> tok, token_ts |-> ts,
            raised |-> IF res.raised = "Exception"
                         THEN "CommunicationError" ELSE "AuthenticationError"]

async_login(tok, ts, r, t) ==
  LET res == login(r) IN
    IF res.raised = "none"
      THEN [token |-> res.value, token_ts |-> t, raised |-> "none"]
      ELSE [token |-> tok, token_ts |-> ts, raised |-> "AuthenticationError"]

\* ------------------------------------------------- control intents -> tasks
Task(k, e) == [key |-> k, extra |-> e]
NoneS == <<"None">>    \* an absent rgb_hex argument

\* the kwargs of PuGoingRGBCWLight.async_turn_on; rgb_color None is <<>>
Kw(b, ct, rgb) == [brightness |-> b, color_temp |-> ct, rgb_color |-> rgb]

NoArgs == [device |-> 0, on |-> None, brightness |-> NoneI, color_temp |-> NoneI,
           rgb_hex |-> NoneS, action |-> None, position |-> NoneI,
           power |-> None, mode |-> None, fan_mode |-> None,
           temperature |-> NoneI, kwargs |-> Kw(NoneI, NoneI, <<>>)]

Built(ts) == [raised |-> "none", value |-> ts]

lamp_tasks(a) ==
  Built(<<Task(IF a.on = "True" THEN <<"LAMP_OPEN">> ELSE <<"LAMP_CLOSE">>, NoExtra)>>)

dimmer_power(a) ==
  IF a.on = "True" THEN <<Task(<<"LAMP_OPEN">>, NoExtra)>>
  ELSE IF a.on = "False" THEN <<Task(<<"LAMP_CLOSE">>, NoExtra)>>
  ELSE <<>>

KelvinRangeWide(c) == 1000 <= c /\ c <= 6500

BrightnessOk(b) == 0 <= b /\ b <= 100
KelvinRange(c) == 2000 <= c /\ c <= 6500
PercentRange(c) == 0 <= c /\ c <= 100

dimmer_brightness_doubled(a) ==
  IF a.brightness = NoneI THEN <<>>
  ELSE <<Task(<<"LAMP_BRI">>, Str(a.brightness * 2))>>

dimmer_brightness(a) ==
  IF a.brightness = NoneI THEN <<>>
  ELSE <<Task(<<"LAMP_BRI">>, Str(IntTrunc(a.brightness * 254, 100)))>>

dimmer_color_temp(a) ==
  IF a.color_temp = NoneI THEN <<>>
  ELSE IF KelvinRange(a.color_temp)
    THEN <<Task(<<"LAMP_CCT">>, Str(IntTrunc((a.color_temp - 153) * 100, 347)))>>
    ELSE <<Task(<<"LAMP_CCT">>, Str(IntTrunc(a.color_temp * 347 + 15300, 100)))>>

dimmer_rgb(a) ==
  IF a.rgb_hex = NoneS THEN <<>>
  ELSE <<Task(<<"LAMP_RGB">>, [i \in 1..Len(a.rgb_hex) |-> Upper(a.rgb_hex[i])])>>

dimmer_tasks_bri_first(a) ==
  IF a.brightness # NoneI /\ ~BrightnessOk(a.brightness) THEN Raises("ValueError")
  ELSE IF a.color_temp # NoneI /\ ~KelvinRange(a.color_temp)
          /\ ~PercentRange(a.color_temp) THEN Raises("ValueError")
  ELSE IF a.rgb_hex # NoneS /\ Len(a.rgb_hex) # 6 THEN Raises("ValueError")
  ELSE Built(dimmer_brightness(a) \o dimmer_power(a) \o dimmer_color_temp(a)
             \o dimmer_rgb(a))

\* async_set_dimmer_state sending the power sub-intent it has already queued
\* when a later sub-intent is rejected
dimmer_tasks_power_kept(a) ==
  IF a.brightness # NoneI /\ ~BrightnessOk(a.brightness) THEN Built(dimmer_power(a))
  ELSE IF a.color_temp # NoneI /\ ~KelvinRange(a.color_temp)
          /\ ~PercentRange(a.color_temp) THEN Built(dimmer_power(a))
  ELSE IF a.rgb_hex # NoneS /\ Len(a.rgb_hex) # 6 THEN Built(dimmer_power(a))
  ELSE Built(dimmer_power(a) \o dimmer_brightness(a) \o dimmer_color_temp(a)
             \o dimmer_rgb(a))

\* async_set_dimmer_state, from the first sub-intent to the prepared bundle
dimmer_tasks(a) ==
  IF a.brightness # NoneI /\ ~BrightnessOk(a.brightness) THEN Raises("ValueError")
  ELSE IF a.color_temp # NoneI /\ ~KelvinRange(a.color_temp)
          /\ ~PercentRange(a.color_temp) THEN Raises("ValueError")
  ELSE IF a.rgb_hex # NoneS /\ Len(a.rgb_hex) # 6 THEN Raises("ValueError")
  ELSE Built(dimmer_power(a) \o dimmer_brightness(a) \o dimmer_color_temp(a)
             \o dimmer_rgb(a))

curtain_tasks_position_first(a) ==
  LET key == IF a.position # NoneI THEN <<"CL_POS">>
             ELSE IF a.action = "open" THEN <<"CL_OPEN">>
             ELSE IF a.action = "close" THEN <<"CL_CLOSE">>
             ELSE IF a.action = "stop" THEN <<"CL_PAUSE">>
             ELSE <<>>
  IN IF key = <<>> THEN Raises("ValueError")
     ELSE Built(<<Task(key, IF key = <<"CL_POS">> THEN Str(a.position) ELSE NoExtra)>>)

\* async_set_curtain_state: key mapping and extra value
curtain_tasks(a) ==
  LET key == IF a.action = "open" THEN <<"CL_OPEN">>
             ELSE IF a.action = "close" THEN <<"CL_CLOSE">>
             ELSE IF a.action = "stop" THEN <<"CL_PAUSE">>
             ELSE IF a.position # NoneI THEN <<"CL_POS">>
             ELSE <<>>
  IN IF key = <<>> THEN Raises("ValueError")
     ELSE Built(<<Task(key, IF key = <<"CL_POS">> /\ a.position # NoneI
                              THEN Str(a.position) ELSE NoExtra)>>)

vrv_power(a) ==
  IF a.power = "True" THEN <<Task(<<"VRV_OPEN">>, NoExtra)>>
  ELSE IF a.power = "False" THEN <<Task(<<"VRV_CLOSE">>, NoExtra)>>
  ELSE <<>>

vrv_mode(a) ==
  IF a.mode = "cool" THEN <<Task(<<"VRV_MCOLD">>, NoExtra)>>
  ELSE IF a.mode = "heat" THEN <<Task(<<"VRV_MHOT">>, NoExtra)>>
  ELSE IF a.mode = "dry" THEN <<Task(<<"VRV_MDRY">>, NoExtra)>>
  ELSE IF a.mode = "fan_only" THEN <<Task(<<"VRV_MWIND">>, NoExtra)>>
  ELSE <<>>

vrv_fan(a) ==
  IF a.fan_mode = "high" THEN <<Task(<<"VRV_WSH">>, NoExtra)>>
  ELSE IF a.fan_mode = "medium" THEN <<Task(<<"VRV_WSM">>, NoExtra)>>
  ELSE IF a.fan_mode = "low" THEN <<Task(<<"VRV_WSL">>, NoExtra)>>
  ELSE <<>>

VrvTempOk(t) == 16 <= t /\ t <= 30

\* async_set_vrv_state, from the first sub-intent to the bundle
vrv_tasks(a) ==
  IF a.temperature # NoneI /\ ~VrvTempOk(a.temperature) THEN Raises("ValueError")
  ELSE Built(vrv_power(a) \o vrv_mode(a) \o vrv_fan(a)
             \o (IF a.temperature = NoneI THEN <<>>
                 ELSE <<Task(<<"VRV_T">> \o Str(a.temperature), NoExtra)>>))

\* ------------------------------------------------------- the vendor's world
\* A device as the vendor describes it; infos is the set of dinfo texts the
\* vendor may report for it.  dinfo is a sequence of tokens.
Dev(y, p, i) == [yid |-> y, dpanel |-> p, infos |-> i, dnlps |-> {<<>>}, dcaps |-> {<<>>}]
RgbcwDev(y, i, n) ==
  [yid |-> y, dpanel |-> "LampRGBCW", infos |-> i, dnlps |-> n, dcaps |-> {<<>>}]
VrvDev(y, c) == [yid |-> y, dpanel |-> "VRV", infos |-> {<<>>}, dnlps |-> {<<>>}, dcaps |-> c]
Scene(s, i) == [sid |-> s, sinfo |-> i]

InfoOn == <<"kai">>
InfoOff == <<"guan">>
InfoOpened65 == <<"dakai", "6", "5", "%">>
InfoClosed == <<"guanbi">>
InfoOther == <<"ting">>

GridRoom(h, r) ==
  [name |-> r,
   devs |-> <<IF r % 2 = 1 THEN Dev(h * 10 + r, "Lamp", {InfoOn})
              ELSE Dev(h * 10 + r, "CurtainPG", {InfoClosed})>>]

GridWorld ==
  [h \in 1..NumHosts |->
     [sn |-> h, room |-> [r \in 1..NumRooms |-> GridRoom(h, r)],
      scenes |-> <<Scene(h, "idle")>>]]

OneRoomWorld(d) ==
  <<[sn |-> 1, room |-> <<[name |-> 1, devs |-> <<d>>]>>,
     scenes |-> <<Scene(1, "idle")>>]>>

TokenWorld == OneRoomWorld(Dev(11, "Lamp", {InfoOn}))
LampWorld == OneRoomWorld(Dev(11, "Lamp", {InfoOn, InfoOff}))
RgbcwWorld ==
  OneRoomWorld(RgbcwDev(11, {<<"kai">>, <<"guan">>},
    {<<"R", "G", "B", "C", "W", ":", "0", "0", "0", "0", "0", "A", "0", "A", "0", "0", "1", "4", "6", "4">>}))
\* one host whose two rooms hold a device of every kind a platform looks for
PlatformWorld ==
  <<[sn |-> 1,
     room |-> <<[name |-> 1,
                 devs |-> <<Dev(11, "Lamp", {InfoOn}), Dev(12, "CurtainPG", {InfoClosed}),
                            Dev(13, "Breaker", {InfoOn})>>],
                [name |-> 2,
                 devs |-> <<Dev(21, "HumanSensor", {InfoOn}),
                            Dev(22, "IntelligentButler", {InfoOn}),
                            Dev(23, "LampBri", {InfoOn}),
                            RgbcwDev(24, {InfoOn}, {<<>>}),
                            VrvDev(25, {<<>>})>>]>>,
     scenes |-> <<Scene(1, "idle")>>]>>
VrvCaps ==
  {<<"p", "o", "w", "e", "r", ":", "0", "1", ";", "m", "o", "d", ":", "0", "2", ";", "t", "e", "m", ":", "2", "4", ";", "w", "s", ":", "0", "1">>,
   <<"p", "o", "w", "e", "r", ":", "0", "0", ";", "m", "o", "d", ":", "0", "2", ";", "t", "e", "m", ":", "2", "4", ";", "w", "s", ":", "0", "3">>,
   <<>>,
   <<"t", "e", "m", ":", "2", ":", "6">>}
VrvWorld == OneRoomWorld(VrvDev(11, VrvCaps))
FanoutWorld ==
  <<[sn |-> 1,
     room |-> [r \in 1..FanoutRooms |->
                 [name |-> r, devs |-> <<Dev(10 + r, "Lamp", {InfoOn, InfoOff})>>]],
     scenes |-> <<Scene(1, "idle")>>]>>
\* two hosts of two rooms; the vendor lists lamp 11 under both rooms of the
\* first host and under a room of the second
SharedWorld ==
  <<[sn |-> 1,
     room |-> <<[name |-> 1, devs |-> <<Dev(11, "Lamp", {InfoOn})>>],
                [name |-> 2, devs |-> <<Dev(11, "Lamp", {InfoOn})>>]>>,
     scenes |-> <<Scene(1, "idle")>>],
    [sn |-> 2,
     room |-> <<[name |-> 1, devs |-> <<Dev(11, "Lamp", {InfoOn})>>],
                [name |-> 2, devs |-> <<Dev(22, "CurtainPG", {InfoClosed})>>]>>,
     scenes |-> <<Scene(2, "idle")>>]>>
\* two hosts whose rooms list several devices of mixed kinds, one of them
\* twice and two of them without a dpanel
OrderWorld ==
  <<[sn |-> 1,
     room |-> <<[name |-> 1,
                 devs |-> <<Dev(11, "Lamp", {InfoOn}), Dev(11, "Lamp", {InfoOn}),
                            Dev(12, "CurtainPG", {InfoClosed}), Dev(13, "Lamp", {InfoOff})>>],
                [name |-> 2,
                 devs |-> <<Dev(14, None, {InfoOn}), Dev(15, "Lamp", {InfoOn})>>]>>,
     scenes |-> <<Scene(1, "idle")>>],
    [sn |-> 2,
     room |-> <<[name |-> 1,
                 devs |-> <<Dev(22, None, {InfoOff}), Dev(21, "Lamp", {InfoOn}),
                            Dev(23, "CurtainPG", {InfoClosed})>>]>>,
     scenes |-> <<Scene(2, "idle")>>]>>

\* one host whose room holds a device of each stateful kind
KindsWorld ==
  <<[sn |-> 1,
     room |-> <<[name |-> 1,
                 devs |-> <<Dev(11, "Lamp", {InfoOn, InfoOff}),
                            Dev(12, "CurtainPG", {InfoOpened65, InfoClosed}),
                            Dev(13, "Breaker", {InfoOn, InfoOff}),
                            RgbcwDev(14, {InfoOn},
                              {<<"R", "G", "B", "C", "W", ":", "0", "3", "0", "0", "0", "A", "0", "A", "0", "0", "1", "4", "6", "4">>}),
                            VrvDev(15,
                              {<<"p", "o", "w", "e", "r", ":", "0", "1", ";", "m", "o", "d", ":", "0", "2", ";", "t", "e", "m", ":", "2", "4", ";", "w", "s", ":", "0", "1">>})>>]>>,
     scenes |-> <<Scene(1, "idle")>>]>>
BreakerWorld == OneRoomWorld(Dev(13, "Breaker", {InfoOn, InfoOff}))
CurtainWorld ==
  OneRoomWorld(Dev(12, "CurtainPG", {InfoOpened65, InfoClosed, InfoOther}))

\* every list a room can report: each device with one of its dinfo texts
RECURSIVE RoomLists(_)
RoomLists(devs) ==
  IF devs = <<>> THEN {<<>>}
  ELSE {<<[yid |-> Head(devs).yid, dpanel |-> Head(devs).dpanel, dinfo |-> i,
            dnlp |-> n, dcap |-> c]>> \o rest :
          i \in Head(devs).infos, n \in Head(devs).dnlps, c \in Head(devs).dcaps,
          rest \in RoomLists(Tail(devs))}

ListReplies(lists) ==
  {[net |-> "ok", ack |-> 1, msg |-> "ok", list |-> l] : l \in lists \cup {<<>>}}
  \cup {[net |-> "ok", ack |-> 0, msg |-> m, list |-> <<>>] :
          m \in {MsgOffline, MsgNoPermission, MsgOther}}
  \cup NetFailures

\* the sn_room_list the vendor serves: hosts with their room names
SnRoomList ==
  [h \in DOMAIN vendor |->
     [sn |-> vendor[h].sn,
      room |-> [r \in DOMAIN vendor[h].room |-> [name |-> vendor[h].room[r].name]]]]

\* ------------------------------------------------ pugoing_api list functions
fetch_sn_and_room_list(r) ==
  IF r.net # "ok" THEN Raises(NetError(r))
  ELSE IF r.ack = 1 THEN Returns(r.list)
  ELSE Raises("Exception")

fetch_devices_by_room(r) ==
  IF r.net # "ok" THEN Raises(NetError(r))
  ELSE IF r.ack = 1 THEN Returns(r.list)
  ELSE Raises("Exception")

fetch_scenes_by_sn(r) ==
  IF r.net # "ok" THEN Raises(NetError(r))
  ELSE IF r.ack = 1 THEN Returns(r.list)
  ELSE IF r.msg = MsgOffline THEN Raises("DeviceOfflineError")
  ELSE IF r.msg = MsgNoPermission THEN Raises("NoPermissionError")
  ELSE Returns(<<>>)

Panel(d) == IF d.dpanel = None THEN "Unknown" ELSE d.dpanel

\* categorize_devices_by_panel putting each device at the head of its bucket
categorize_devices_by_panel_insert(sn, devices) ==
  LET n == Len(devices)
      tagged == [i \in DOMAIN devices |->
                   [yid |-> devices[n + 1 - i].yid, dpanel |-> devices[n + 1 - i].dpanel,
                    dinfo |-> devices[n + 1 - i].dinfo, dnlp |-> devices[n + 1 - i].dnlp,
                    dcap |-> devices[n + 1 - i].dcap, sn |-> sn]]
      IsKind(k) == LET P(d) == Panel(d) = k IN SelectSeq(tagged, P)
  IN [k \in {Panel(tagged[i]) : i \in DOMAIN tagged} |-> IsKind(k)]

\* categorize_devices_by_panel, after the fetch: tag with sn, bucket by dpanel
categorize_devices_by_panel(sn, devices) ==
  LET tagged == [i \in DOMAIN devices |->
                   [yid |-> devices[i].yid, dpanel |-> devices[i].dpanel,
                    dinfo |-> devices[i].dinfo, dnlp |-> devices[i].dnlp,
                    dcap |-> devices[i].dcap, sn |-> sn]]
      IsKind(k) == LET P(d) == Panel(d) = k IN SelectSeq(tagged, P)
  IN [k \in {Panel(tagged[i]) : i \in DOMAIN tagged} |-> IsKind(k)]

RECURSIVE merge_dicts(_)
merge_dicts(dict_list) ==
  IF dict_list = <<>> THEN <<>>
  ELSE LET n == Len(dict_list)
           init == merge_dicts(SubSeq(dict_list, 1, n - 1))
           last == dict_list[n]
       IN [k \in DOMAIN init \cup DOMAIN last |->
             (IF k \in DOMAIN init THEN init[k] ELSE <<>>)
             \o (IF k \in DOMAIN last THEN last[k] ELSE <<>>)]

\* ------------------------------------------------------------ state decoding
Contains(s, tok) == \E i \in DOMAIN s : s[i] = tok

IsDigit(c) == c \in {"0", "1", "2", "3", "4", "5", "6", "7", "8", "9"}
DigitVal(c) == CHOOSE d \in 0..9 : Digit(d) = c

RECURSIVE ParseNat(_)
ParseNat(s) ==
  IF Len(s) = 1 THEN DigitVal(s[1])
  ELSE ParseNat(SubSeq(s, 1, Len(s) - 1)) * 10 + DigitVal(s[Len(s)])

\* int(text): ValueError (here NoneI) unless text is a run of digits
ParseInt(s) ==
  IF s # <<>> /\ \A i \in DOMAIN s : IsDigit(s[i]) THEN ParseNat(s) ELSE NoneI

\* text.split(marker)[1]: what stands between the first and the second marker
SplitSecond(s, marker) ==
  LET first == CHOOSE i \in DOMAIN s :
                 s[i] = marker /\ \A j \in 1..(i - 1) : s[j] # marker
      later == {j \in DOMAIN s : j > first /\ s[j] = marker}
      stop == IF later = {} THEN Len(s) + 1
              ELSE CHOOSE j \in later : \A k \in later : j <= k
  IN SubSeq(s, first + 1, stop - 1)

Without(s, tok) == LET Keep(c) == c # tok IN SelectSeq(s, Keep)

\* PuGoingLampLight._parse_state
parse_state(dinfo) == dinfo # <<>> /\ Head(dinfo) = "kai"

\* PuGoingCurtain._parse_position
parse_position(dinfo) ==
  IF Contains(dinfo, "dakai") /\ Contains(dinfo, "%")
    THEN ParseInt(Without(SplitSecond(dinfo, "dakai"), "%"))
  ELSE IF Contains(dinfo, "guanbi") THEN 0
  ELSE NoneI

\* the key test of the light platform: "Lamp" in key
ContainsLamp(k) == k \in {"Lamp", "LampRGBCW", "LampBri"}

Bucket(snap, k) ==
  IF k \in DOMAIN snap.devices_by_type THEN snap.devices_by_type[k] ELSE <<>>

\* _latest: the first device of the bucket with the entity's yid, or none
NoDev == [yid |-> 0, dpanel |-> None, dinfo |-> <<>>, dnlp |-> <<>>, dcap |-> <<>>,
          sn |-> 0]
Latest(snap, k, y) ==
  LET b == Bucket(snap, k)
      hits == {i \in DOMAIN b : b[i].yid = y}
  IN IF hits = {} THEN NoDev
     ELSE b[CHOOSE i \in hits : \A j \in hits : i <= j]

\* the debounce tests of is_on and current_cover_position
LampHoldsLax(last, t) == last # NoTs /\ t - last <= LAMP_STATE_DEBOUNCE_SECONDS

LampHolds(last, t) == last # NoTs /\ t - last < LAMP_STATE_DEBOUNCE_SECONDS

CurtainHolds(last, t) == last # NoTs /\ t - last < CURTAIN_STATE_DEBOUNCE_SECONDS

\* ------------------------------------------------- client operations: flow
NoTask == Task(<<>>, NoExtra)
Call(name, tok, t) == [call |-> name, token |-> tok, key |-> t.key, extra |-> t.extra]

NoStart == [token |-> NoToken, ts |-> NoTs, at |-> 0]
NoCtl == [net |-> "none", ack |-> NoneI, msg |-> "", returned |-> FALSE]
NoPoll == [token |-> NoToken, list |-> <<>>, h |-> 0, r |-> 0,
           devices_all |-> <<>>, scenes_all |-> <<>>]
NoServed == [scenes |-> <<>>, rooms |-> <<>>, failed |-> {}]
NoData == [devices_by_type |-> <<>>, scenes_by_sn |-> <<>>, token |-> NoToken]
NoShown == [ent |-> "none", yid |-> 0, value |-> NoneI]

Ops == {"async_get_data", "async_set_lamp_state", "async_set_dimmer_state",
        "async_set_curtain_state", "async_set_vrv_state", "async_execute_scene"}

\* the bundle an operation prepares, or the validation error it raises
Plan(o, a) ==
  CASE o = "async_set_lamp_state" -> lamp_tasks(a)
    [] o = "async_set_dimmer_state" -> dimmer_tasks(a)
    [] o = "async_set_curtain_state" -> curtain_tasks(a)
    [] o = "async_set_vrv_state" -> vrv_tasks(a)
    [] OTHER -> Built(<<>>)

Step(p, ts, out) == [pc |-> p, tasks |-> ts, outcome |-> out]

AfterEnsureEmptyRaises(o, a) ==
  IF o = "async_get_data" THEN Step("topology", <<>>, "none")
  ELSE IF o = "async_execute_scene" THEN Step("scene", <<>>, "none")
  ELSE LET p == Plan(o, a) IN
    IF p.raised # "none" THEN Step("done", <<>>, p.raised)
    ELSE IF p.value = <<>> THEN Step("done", <<>>, "ValueError")
    ELSE Step("control", p.value, "none")

\* what an operation does once _async_ensure_token has returned, up to its
\* first transport call
AfterEnsure(o, a) ==
  IF o = "async_get_data" THEN Step("topology", <<>>, "none")
  ELSE IF o = "async_execute_scene" THEN Step("scene", <<>>, "none")
  ELSE LET p == Plan(o, a) IN
    IF p.raised # "none" THEN Step("done", <<>>, p.raised)
    ELSE IF p.value = <<>> THEN Step("done", <<>>, "ok")
    ELSE Step("control", p.value, "none")

FirstCall(b, tok) ==
  CASE b.pc = "topology" -> <<Call("fetch_sn_and_room_list", tok, NoTask)>>
    [] b.pc = "scene" -> <<Call("execute_scene", tok, NoTask)>>
    [] b.pc = "control" -> <<Call("control_device", tok, b.tasks[1])>>
    [] OTHER -> <<>>

\* the except clauses of the control operations and of async_execute_scene
client_wrap(raised) == IF raised = "none" THEN "ok" ELSE "CommunicationError"

\* ------------------------------------------------------------ process_rooms
\* the try/except around the scene fetch of one host
scenes_step_abort(scenes_all, sn, res) ==
  [raised |-> res.raised,
   value |-> IF res.raised = "none" /\ res.value # <<>>
               THEN [k \in DOMAIN scenes_all \cup {sn} |->
                       IF k = sn THEN res.value ELSE scenes_all[k]]
               ELSE scenes_all]

scenes_step(scenes_all, sn, res) ==
  [raised |-> "none",
   value |-> IF res.raised = "none" /\ res.value # <<>>
               THEN [k \in DOMAIN scenes_all \cup {sn} |->
                       IF k = sn THEN res.value ELSE scenes_all[k]]
               ELSE scenes_all]

\* the try/except around the device fetch of one room
devices_step(devices_all, sn, res) ==
  [raised |-> "none",
   value |-> IF res.raised # "none" THEN devices_all
             ELSE LET d == categorize_devices_by_panel(sn, res.value) IN
                    IF DOMAIN d # {} THEN Append(devices_all, d) ELSE devices_all]

\* where the loops go after the fetch at (h, r); r = 0 is the scene fetch
PollAdvance(list, h, r) ==
  IF r < Len(list[h].room) THEN [pc |-> "devices", h |-> h, r |-> r + 1]
  ELSE IF h < Len(list) THEN [pc |-> "scenes", h |-> h + 1, r |-> 0]
  ELSE [pc |-> "done", h |-> h, r |-> r]

PollCall(list, pos, tok) ==
  CASE pos.pc = "scenes" -> <<Call("fetch_scenes_by_sn", tok, NoTask)>>
    [] pos.pc = "devices" -> <<Call("fetch_devices_by_room", tok, NoTask)>>
    [] OTHER -> <<>>

\* the dict async_get_data returns
Snapshot(devices_all, scenes_all, tok) ==
  [devices_by_type |-> merge_dicts(devices_all), scenes_by_sn |-> scenes_all,
   token |-> tok]

\* -------------------------------------------- coordinator and the platforms
\* BlueprintDataUpdateCoordinator._async_update_data: what a failed poll raises
coordinator_signal(out) ==
  IF out = "ok" THEN "ok"
  ELSE IF out = "AuthenticationError" THEN "ConfigEntryAuthFailed"
  ELSE IF out = "CommunicationError" THEN "UpdateFailed"
  ELSE out

Signal(c, p, out) ==
  IF c = "coordinator" /\ p = "done" THEN coordinator_signal(out) ELSE "none"

RECURSIVE Flatten(_)
Flatten(ss) == IF ss = <<>> THEN <<>> ELSE Head(ss) \o Flatten(Tail(ss))

RECURSIVE SetToSeq(_)
SetToSeq(S) ==
  IF S = {} THEN <<>>
  ELSE LET x == CHOOSE x \in S : TRUE IN <<x>> \o SetToSeq(S \ {x})

\* the devices a platform looks at: the buckets whose key passes the test
LampsNow(snap) ==
  LET keys == {k \in DOMAIN snap.devices_by_type : ContainsLamp(k)}
  IN Flatten([i \in 1..Cardinality(keys) |-> snap.devices_by_type[SetToSeq(keys)[i]]])

CurtainsNow(snap) == Bucket(snap, "CurtainPG")

FirstWith(devs, y) ==
  devs[CHOOSE i \in DOMAIN devs : devs[i].yid = y /\ \A j \in 1..(i - 1) : devs[j].yid # y]

\* ---- PuGoingRGBCWLight: the dnlp payload "RGBCW:" + 7 two-character fields
HexDigits == <<"0", "1", "2", "3", "4", "5", "6", "7", "8", "9",
               "A", "B", "C", "D", "E", "F">>
HexChars == {HexDigits[i] : i \in 1..16} \cup {"a", "b", "c", "d", "e", "f"}
HexVal(c) == (CHOOSE i \in 1..16 : HexDigits[i] = Upper(c)) - 1

\* "%02X" % v for a byte v
Hex2(v) == <<HexDigits[(v \div 16) + 1], HexDigits[(v % 16) + 1]>>

\* int(s, 16) of a two-character slice: two hex digits, or one hex digit with
\* a sign before it or white space around it; ValueError (here NoneI) otherwise
IntBase16(s) ==
  IF s[1] \in HexChars /\ s[2] \in HexChars THEN 16 * HexVal(s[1]) + HexVal(s[2])
  ELSE IF s[1] \in {"+", " "} /\ s[2] \in HexChars THEN HexVal(s[2])
  ELSE IF s[1] = "-" /\ s[2] \in HexChars THEN 0 - HexVal(s[2])
  ELSE IF s[1] \in HexChars /\ s[2] = " " THEN HexVal(s[1])
  ELSE NoneI

\* round(num / den) of Python 3 for den > 0: to the nearest, ties to even
PyRound(num, den) ==
  LET q == num \div den
      r == num % den
  IN IF 2 * r > den \/ (2 * r = den /\ q % 2 = 1) THEN q + 1 ELSE q

RgbcwPrefix == <<"R", "G", "B", "C", "W", ":">>

\* PuGoingRGBCWLight._parse_rgbcw: the entity after the call at time t
parse_rgbcw(e, raw, t) ==
  LET rest == SubSeq(raw, 7, Len(raw))
      F(i) == SubSeq(rest, i, i + 1)
      bri == IntBase16(F(5))
      ct == IntBase16(F(7))
      r == IntBase16(F(9))
      g == IntBase16(F(11))
      b == IntBase16(F(13))
  IN IF Len(raw) < 6 \/ SubSeq(raw, 1, 6) # RgbcwPrefix THEN e
     ELSE IF Len(rest) < 14 THEN e
     ELSE IF NoneI \in {bri, ct, r, g, b} THEN e
     ELSE IF e.last_manual # NoTs /\ t - e.last_manual < RGBCW_DEBOUNCE_SECONDS THEN e
     ELSE [e EXCEPT !.state = (F(1) = <<"0", "3">>),
                    !.brightness = (bri * 255) \div 100,
                    !.color_temp = IntTrunc(DEFAULT_MIN_KELVIN * 100
                                     + (DEFAULT_MAX_KELVIN - DEFAULT_MIN_KELVIN) * ct, 100),
                    !.rgb = <<PyRound(r * 255, 100), PyRound(g * 255, 100),
                              PyRound(b * 255, 100)>>]

\* PuGoingLampLight.__init__, and for an RGBCW lamp PuGoingRGBCWLight.__init__
NewLamp(dev) ==
  LET base == [cls |-> "PuGoingLampLight",
               state |-> parse_state(dev.dinfo), last_manual |-> NoTs,
               brightness |-> NoneI, color_temp |-> NoneI, rgb |-> <<>>,
               set_value |-> FALSE, set_tuple |-> <<>>, set_at |-> NoTs]
  IN IF dev.dpanel = "LampRGBCW"
       THEN parse_rgbcw([base EXCEPT !.cls = "PuGoingRGBCWLight"], dev.dnlp, 0)
       ELSE base

NewCurtain(dev) ==
  [position |-> parse_position(dev.dinfo), last_manual |-> NoTs,
   set_value |-> NoneI, set_at |-> NoTs]

\* _handle_lamp_changes / _handle_changes: add the new ids, drop the absent
LampSync(ents, snap) ==
  LET devs == LampsNow(snap)
      current_ids == {devs[i].yid : i \in DOMAIN devs}
  IN [y \in current_ids |->
        IF y \in DOMAIN ents THEN ents[y] ELSE NewLamp(FirstWith(devs, y))]

CurtainSync(ents, snap) ==
  LET devs == CurtainsNow(snap)
      current_ids == {devs[i].yid : i \in DOMAIN devs}
  IN [y \in current_ids |->
        IF y \in DOMAIN ents THEN ents[y] ELSE NewCurtain(FirstWith(devs, y))]

LampAfterControlStateFirst(e, c, out, t) ==
  IF out = "ok"
    THEN [e EXCEPT !.state = (c = "lamp_on"), !.last_manual = t,
                   !.set_value = (c = "lamp_on"), !.set_at = t]
    ELSE [e EXCEPT !.state = (c = "lamp_on")]

\* async_turn_on / async_turn_off of PuGoingLampLight after the awaited call
LampAfterControl(e, c, out, t) ==
  IF out = "ok"
    THEN [e EXCEPT !.state = (c = "lamp_on"), !.last_manual = t,
                   !.set_value = (c = "lamp_on"), !.set_at = t]
    ELSE e

\* the four cover handlers of PuGoingCurtain after the awaited call
CurtainAfterControl(e, c, a, out, t) ==
  IF out # "ok" THEN e
  ELSE LET p == CASE c = "cover_open" -> 100
                  [] c = "cover_close" -> 0
                  [] c = "cover_set" -> a.position
                  [] OTHER -> e.position
       IN [e EXCEPT !.position = p, !.last_manual = t,
                    !.set_value = p, !.set_at = t]

\* ------------------------------------------------------------ breaker entity
\* PuGoingBreakerSwitch._parse_state: the whole text is the "on" marker
breaker_parse_state(dinfo) == dinfo = <<"kai">>

\* PuGoingBreakerSwitch.__init__
NewBreaker(dev) == [state |-> breaker_parse_state(dev.dinfo), last_manual |-> NoTs]

\* switch.async_setup_entry and _handle_breaker_changes: the entities held
BreakerSync(ents, snap) ==
  LET devs == Bucket(snap, "Breaker")
      current_ids == {devs[i].yid : i \in DOMAIN devs}
  IN [y \in current_ids |->
        IF y \in DOMAIN ents THEN ents[y] ELSE NewBreaker(FirstWith(devs, y))]

\* PuGoingBreakerSwitch.is_on
breaker_is_on(e, snap, y, t) ==
  IF LampHolds(e.last_manual, t) THEN e.state
  ELSE LET latest == Latest(snap, "Breaker", y) IN
         IF latest # NoDev THEN breaker_parse_state(latest.dinfo) ELSE e.state

\* the methods IntegrationBlueprintApiClient defines
ClientMethods ==
  Ops \cup {"_async_fetch_devices", "_async_login", "_async_ensure_token"}

\* getattr(client, name) of a handler about to call the client
client_getattr(name) == IF name \in ClientMethods THEN "none" ELSE "AttributeError"

\* ------------------------------------------------------------ climate entity
\* text.split(sep)
RECURSIVE SplitOn(_, _)
SplitOn(s, sep) ==
  IF \A i \in DOMAIN s : s[i] # sep THEN <<s>>
  ELSE LET first == CHOOSE i \in DOMAIN s : s[i] = sep /\ \A j \in 1..(i - 1) : s[j] # sep
       IN <<SubSeq(s, 1, first - 1)>> \o SplitOn(SubSeq(s, first + 1, Len(s)), sep)

\* [item.split(":") for item in dcap.split(";") if ":" in item]
CapItems(dcap) ==
  LET HasColon(it) == Contains(it, ":")
      items == SelectSeq(SplitOn(dcap, ";"), HasColon)
  IN [i \in DOMAIN items |-> SplitOn(items[i], ":")]

\* dict(...) raises ValueError on an item that does not split in two
CapsMalformed(dcap) == \E i \in DOMAIN CapItems(dcap) : Len(CapItems(dcap)[i]) # 2

\* caps.get(k): the last pair wins; the absent value and the empty text are
\* told apart nowhere in async_update, both are <<>> here
CapsGet(dcap, k) ==
  LET pairs == CapItems(dcap)
      hits == {i \in DOMAIN pairs : pairs[i][1] = k}
  IN IF hits = {} THEN <<>>
     ELSE pairs[CHOOSE i \in hits : \A j \in hits : j <= i][2]

map_mode(mode) ==
  CASE mode = <<"0", "1">> -> "heat"
    [] mode = <<"0", "2">> -> "cool"
    [] mode = <<"0", "3">> -> "dry"
    [] mode = <<"0", "4">> -> "fan_only"
    [] OTHER -> "off"

map_fan(fan) ==
  CASE fan = <<"0", "1">> -> "low"
    [] fan = <<"0", "2">> -> "medium"
    [] fan = <<"0", "3">> -> "high"
    [] fan = <<"0", "4">> -> "high"
    [] OTHER -> "medium"

VrvKeys == {"hvac_mode", "temperature", "fan_mode"}

\* new_values of async_update
NewValues(e, dcap) ==
  LET power == CapsGet(dcap, <<"p", "o", "w", "e", "r">>)
      mode == CapsGet(dcap, <<"m", "o", "d">>)
      temp == CapsGet(dcap, <<"t", "e", "m">>)
      fan == CapsGet(dcap, <<"w", "s">>)
  IN [hvac_mode |-> IF power = <<"0", "0">> THEN "off" ELSE map_mode(mode),
      temperature |-> IF ParseInt(temp) # NoneI THEN ParseInt(temp) ELSE e.temperature,
      fan_mode |-> IF fan # <<>> THEN map_fan(fan) ELSE e.fan_mode]

\* a key that _last_values / _last_change do not hold yet
Unset(k) == IF k = "temperature" THEN NoneI ELSE "unset"
NoValues == [k \in VrvKeys |-> Unset(k)]
NoChanges == [k \in VrvKeys |-> NoTs]

\* PuGoingVRVClimate.__init__; polled and polled_at record what the updates
\* saw: the polled values of the previous update and when each last changed
NewClimate(dev) ==
  [hvac_mode |-> "off", fan_mode |-> "medium", temperature |-> INITIAL_TEMPERATURE,
   last_values |-> NoValues, last_change |-> NoChanges,
   polled |-> NoValues, polled_at |-> NoChanges]

async_update_one_timer(e, snap, y, t) ==
  LET dev == Latest(snap, "VRV", y)
      val == NewValues(e, dev.dcap)
      Changed(k) == e.last_values[k] # val[k]
      Moved == \E k \in VrvKeys : Changed(k)
      Since(k) == t - (IF e.last_change[k] = NoTs THEN 0 ELSE e.last_change[k])
      Adopt(k) == ~Changed(k) /\ Since(k) >= VRV_CONFIRM_SECONDS
  IN IF dev = NoDev \/ CapsMalformed(dev.dcap) THEN e
     ELSE [e EXCEPT
       !.last_change = [k \in VrvKeys |-> IF Moved THEN t ELSE @[k]],
       !.last_values = [k \in VrvKeys |-> IF Changed(k) THEN val[k] ELSE @[k]],
       !.hvac_mode = IF Adopt("hvac_mode") THEN val.hvac_mode ELSE @,
       !.temperature = IF Adopt("temperature") THEN val.temperature ELSE @,
       !.fan_mode = IF Adopt("fan_mode") THEN val.fan_mode ELSE @]

\* PuGoingVRVClimate.async_update at time t: the entity after the call
async_update(e, snap, y, t) ==
  LET dev == Latest(snap, "VRV", y)
      val == NewValues(e, dev.dcap)
      Changed(k) == e.last_values[k] # val[k]
      Since(k) == t - (IF e.last_change[k] = NoTs THEN 0 ELSE e.last_change[k])
      Adopt(k) == ~Changed(k) /\ Since(k) >= VRV_CONFIRM_SECONDS
  IN IF dev = NoDev \/ CapsMalformed(dev.dcap) THEN e
     ELSE [e EXCEPT
       !.last_change = [k \in VrvKeys |-> IF Changed(k) THEN t ELSE @[k]],
       !.last_values = [k \in VrvKeys |-> IF Changed(k) THEN val[k] ELSE @[k]],
       !.hvac_mode = IF Adopt("hvac_mode") THEN val.hvac_mode ELSE @,
       !.temperature = IF Adopt("temperature") THEN val.temperature ELSE @,
       !.fan_mode = IF Adopt("fan_mode") THEN val.fan_mode ELSE @]

\* climate.async_setup_entry: one entity per VRV device of the first snapshot
ClimateSetup(snap) ==
  LET devs == Bucket(snap, "VRV")
  IN [y \in {devs[i].yid : i \in DOMAIN devs} |-> NewClimate(FirstWith(devs, y))]

\* async_set_temperature after the awaited call
ClimateAfterControl(e, c, a, out) ==
  IF out # "ok" THEN e
  ELSE IF c = "vrv_temperature" THEN [e EXCEPT !.temperature = a.temperature]
  ELSE e

ClimateCallers == {"vrv_temperature"}

\* if x: of an optional integer kwarg
Truthy(x) == x # NoneI /\ x # 0

\* async_turn_on / async_turn_off of PuGoingRGBCWLight after the awaited call
RgbcwAfterControl(e, c, a, out, t) ==
  IF out # "ok" THEN e
  ELSE LET kw == a.kwargs
           held == IF c = "rgbcw_off" THEN [e EXCEPT !.state = FALSE]
                   ELSE [e EXCEPT
                     !.state = TRUE,
                     !.brightness = IF Truthy(kw.brightness) THEN kw.brightness ELSE @,
                     !.color_temp = IF Truthy(kw.color_temp) THEN kw.color_temp ELSE @,
                     !.rgb = IF kw.rgb_color # <<>> THEN kw.rgb_color ELSE @]
       IN [held EXCEPT !.last_manual = t, !.set_at = t,
                       !.set_tuple = [state |-> held.state, brightness |-> held.brightness,
                                      color_temp |-> held.color_temp, rgb |-> held.rgb]]

LampCallers == {"lamp_on", "lamp_off"}
RgbcwCallers == {"rgbcw_on", "rgbcw_off"}
CoverCallers == {"cover_open", "cover_close", "cover_stop", "cover_set"}

\* ------------------------------------------------- the platforms' listeners
Platforms == {"light", "cover", "switch", "binary_sensor", "sensor", "button"}

SensorKinds == {"tem", "hum", "lum"}

\* scenes_by_sn.items(), scene by scene: each scene with the sn it is under
ScenesNow(snap) ==
  LET sns == SetToSeq(DOMAIN snap.scenes_by_sn)
  IN Flatten([i \in DOMAIN sns |->
       [k \in DOMAIN snap.scenes_by_sn[sns[i]] |->
          [sn |-> sns[i], sid |-> snap.scenes_by_sn[sns[i]][k].sid,
           sinfo |-> snap.scenes_by_sn[sns[i]][k].sinfo]]])

\* the ids a platform finds in a snapshot: current_ids of its listener
CurrentIds(p, snap) ==
  LET devs == CASE p = "light" -> LampsNow(snap)
                [] p = "cover" -> CurtainsNow(snap)
                [] p = "switch" -> Bucket(snap, "Breaker")
                [] p = "binary_sensor" -> Bucket(snap, "HumanSensor")
                [] p = "sensor" -> Bucket(snap, "IntelligentButler")
                [] OTHER -> <<>>
  IN IF p = "button" THEN {ScenesNow(snap)[i].sid : i \in DOMAIN ScenesNow(snap)}
     ELSE {devs[i].yid : i \in DOMAIN devs}

UniqueId(id, tag) == [id |-> id, tag |-> tag]

\* _attr_unique_id of the entities a platform creates for one id
EntityUniqueIds(p, id) ==
  IF p = "sensor" THEN {UniqueId(id, k) : k \in SensorKinds}
  ELSE IF p = "button" THEN {UniqueId(id, "scene")}
  ELSE {UniqueId(id, "")}

\* the unique ids a listener looks up in the registry for a removed id
RemovalUniqueIds(p, id) ==
  IF p = "sensor" THEN {UniqueId(id, k) : k \in {"tem", "hum", "lum"}}
  ELSE IF p = "button" THEN {UniqueId(id, "scene")}
  ELSE {UniqueId(id, "")}

NoPlatform == [known |-> {}, registry |-> {}]

\* _async_add_initial of a platform: known_ids and the entities it adds
platform_setup(p, snap) ==
  [known |-> CurrentIds(p, snap),
   registry |-> UNION {EntityUniqueIds(p, id) : id \in CurrentIds(p, snap)}]

\* the coordinator listener of a platform: new ids get entities, removed ids
\* lose their registry entries, known_ids follows
platform_listener_keeps_known(p, st, snap) ==
  LET current_ids == CurrentIds(p, snap)
      new_ids == current_ids \ st.known
      removed_ids == st.known \ current_ids
  IN [known |-> st.known \cup new_ids,
      registry |-> (st.registry \cup UNION {EntityUniqueIds(p, id) : id \in new_ids})
                     \ UNION {RemovalUniqueIds(p, id) : id \in removed_ids}]

platform_listener(p, st, snap) ==
  LET current_ids == CurrentIds(p, snap)
      new_ids == current_ids \ st.known
      removed_ids == (st.known \cup new_ids) \ current_ids
  IN [known |-> (st.known \cup new_ids) \ removed_ids,
      registry |-> (st.registry \cup UNION {EntityUniqueIds(p, id) : id \in new_ids})
                     \ UNION {RemovalUniqueIds(p, id) : id \in removed_ids}]

\* ---- PuGoingSceneButton
MANUAL_SINFO == "manual"

\* _can_trigger, its test
can_trigger(e, t) ==
  ~(e.last_trigger # NoTs /\ t - e.last_trigger < BUTTON_STATE_DEBOUNCE_SECONDS)

\* PuGoingSceneButton.__init__; polled is the sinfo the entity was last
\* handed, fired whether its last update wrote a "scene fired" state
NewButton(sc) ==
  [sn |-> sc.sn, last_sinfo |-> sc.sinfo, last_trigger |-> NoTs, last_event |-> NoTs,
   polled |-> sc.sinfo, fired |-> FALSE]

\* _trigger_from_update reporting a change without recording it
trigger_from_update_unrecorded(e, sc, t) ==
  IF ~can_trigger(e, t) THEN [e EXCEPT !.polled = sc.sinfo, !.fired = FALSE]
  ELSE IF sc.sinfo # "" /\ sc.sinfo # e.last_sinfo
    THEN [e EXCEPT !.last_trigger = t, !.last_event = t,
                   !.polled = sc.sinfo, !.fired = TRUE]
  ELSE [e EXCEPT !.last_trigger = t, !.polled = sc.sinfo, !.fired = FALSE]

\* _trigger_from_update; last_event notes when a firing was detected
trigger_from_update(e, sc, t) ==
  IF ~can_trigger(e, t) THEN [e EXCEPT !.polled = sc.sinfo, !.fired = FALSE]
  ELSE IF sc.sinfo # "" /\ sc.sinfo # e.last_sinfo
    THEN [e EXCEPT !.last_trigger = t, !.last_sinfo = sc.sinfo, !.last_event = t,
                   !.polled = sc.sinfo, !.fired = TRUE]
  ELSE [e EXCEPT !.last_trigger = t, !.polled = sc.sinfo, !.fired = FALSE]

FirstScene(scs, sid) ==
  scs[CHOOSE i \in DOMAIN scs : scs[i].sid = sid /\ \A j \in 1..(i - 1) : scs[j].sid # sid]
LastScene(scs, sid) ==
  scs[CHOOSE i \in DOMAIN scs :
        scs[i].sid = sid /\ \A j \in (i + 1)..Len(scs) : scs[j].sid # sid]

\* _async_add_initial of the button platform
ButtonSetup(snap) ==
  [sid \in CurrentIds("button", snap) |-> NewButton(FirstScene(ScenesNow(snap), sid))]

\* the closing loop of _handle_scene_changes
RECURSIVE TriggerAll(_, _, _)
TriggerAll(ents, scs, t) ==
  IF scs = <<>> THEN ents
  ELSE LET sc == Head(scs)
           next == IF sc.sid \in DOMAIN ents
                     THEN [ents EXCEPT ![sc.sid] = trigger_from_update(@, sc, t)]
                   ELSE ents
       IN TriggerAll(next, Tail(scs), t)

\* _handle_scene_changes
ButtonSync(ents, snap, t) ==
  LET scs == ScenesNow(snap)
      current_ids == CurrentIds("button", snap)
      held == [sid \in current_ids |->
                 IF sid \in DOMAIN ents THEN ents[sid] ELSE NewButton(LastScene(scs, sid))]
  IN TriggerAll(held, scs, t)

NoPress == [sid |-> 0, at |-> NoTs, ran |-> FALSE, before |-> NoTs, seen |-> ""]

\* the caller resumes with the operation's outcome
Continue(c, a, out, res) ==
  /\ data' = IF c = "coordinator" /\ out = "ok" THEN res ELSE data
  /\ lamp' = IF c = "coordinator" /\ out = "ok" THEN LampSync(lamp, res)
             ELSE IF c \in LampCallers /\ a.device \in DOMAIN lamp
               THEN [lamp EXCEPT ![a.device] = LampAfterControl(@, c, out, now)]
             ELSE IF c \in RgbcwCallers /\ a.device \in DOMAIN lamp
               THEN [lamp EXCEPT ![a.device] = RgbcwAfterControl(@, c, a, out, now)]
             ELSE lamp
  /\ curtain' = IF c = "coordinator" /\ out = "ok" THEN CurtainSync(curtain, res)
                ELSE IF c \in CoverCallers /\ a.device \in DOMAIN curtain
                  THEN [curtain EXCEPT ![a.device] =
                          CurtainAfterControl(@, c, a, out, now)]
                ELSE curtain
  /\ climate' = IF c = "coordinator" /\ out = "ok" /\ data = NoData
                  THEN ClimateSetup(res)
                ELSE IF c \in ClimateCallers /\ a.device \in DOMAIN climate
                  THEN [climate EXCEPT ![a.device] = ClimateAfterControl(@, c, a, out)]
                ELSE climate
  /\ platform' = IF c = "coordinator" /\ out = "ok"
                   THEN [p \in Platforms |->
                           IF data = NoData THEN platform_setup(p, res)
                           ELSE platform_listener(p, platform[p], res)]
                 ELSE platform
  /\ button' = IF button.watch /\ c = "coordinator" /\ out = "ok"
                 THEN [button EXCEPT !.ents = IF data = NoData THEN ButtonSetup(res)
                                              ELSE ButtonSync(@, res, now)]
               ELSE button
  /\ breaker' = IF c = "coordinator" /\ out = "ok" THEN BreakerSync(breaker, res)
                ELSE breaker

\* ------------------------------------------------------------------ actions
NoReply == [net |-> "none"]

\* a client operation is called: _async_ensure_token, then either the login
\* request or everything up to the operation's first transport call
Begin(o, c, a) ==
  /\ pc = "idle"
  /\ op' = o /\ caller' = c /\ args' = a
  /\ opStart' = [token |-> token, ts |-> token_ts, at |-> now]
  /\ IF TokenExpired(token, token_ts, now)
       THEN /\ pc' = "login"
            /\ tasks' = <<>> /\ taskIdx' = 0 /\ outcome' = "none"
            /\ netlog' = <<Call("login", NoToken, NoTask)>>
            /\ poll' = poll
            /\ signal' = "none"
       ELSE LET b == AfterEnsure(o, a) IN
            /\ pc' = b.pc /\ tasks' = b.tasks
            /\ taskIdx' = IF b.pc = "control" THEN 1 ELSE 0
            /\ outcome' = b.outcome
            /\ netlog' = FirstCall(b, token)
            /\ poll' = IF b.pc = "topology" THEN [poll EXCEPT !.token = token] ELSE poll
            /\ signal' = Signal(c, b.pc, b.outcome)
  /\ shown' = NoShown
  /\ UNCHANGED <<libVars, now, vendor, clientVars, lastLoginReply, lastCtl, result, served,
                 data, lamp, curtain>>

Start(o, c, a) == Begin(o, c, a) /\ UNCHANGED platformVars

\* the vendor answers the login request
LoginReply(r) ==
  /\ pc = "login"
  /\ LET l == async_login(token, token_ts, r, now)
         b == AfterEnsure(op, args)
     IN /\ token' = l.token /\ token_ts' = l.token_ts
        /\ lastLogin' = IF r.net = "ok" /\ r.http = 200 /\ r.ack = 1
                          THEN [tok |-> r.tok, ts |-> now] ELSE lastLogin
        /\ lastLoginReply' = r
        /\ IF l.raised # "none"
             THEN /\ pc' = "done" /\ outcome' = l.raised
                  /\ UNCHANGED <<tasks, taskIdx, netlog, poll>>
                  /\ signal' = Signal(caller, "done", l.raised)
             ELSE /\ pc' = b.pc /\ tasks' = b.tasks
                  /\ taskIdx' = IF b.pc = "control" THEN 1 ELSE 0
                  /\ outcome' = b.outcome
                  /\ netlog' = netlog \o FirstCall(b, l.token)
                  /\ poll' = IF b.pc = "topology"
                               THEN [poll EXCEPT !.token = l.token] ELSE poll
                  /\ signal' = Signal(caller, b.pc, b.outcome)
  /\ shown' = NoShown
  /\ UNCHANGED <<libVars, platformVars, now, vendor, op, caller, args, opStart, lastCtl, result, served,
                 data, lamp, curtain>>

CtlSeen(r, res) ==
  [net |-> r.net, ack |-> IF r.net = "ok" THEN r.ack ELSE NoneI,
   msg |-> IF r.net = "ok" THEN r.msg ELSE "", returned |-> res.raised = "none"]

\* the vendor answers the control call of tasks[taskIdx]
ControlReply(r) ==
  /\ pc = "control"
  /\ LET res == control_device(r) IN
     /\ lastCtl' = CtlSeen(r, res)
     /\ IF res.raised # "none"
          THEN /\ pc' = "done" /\ outcome' = client_wrap(res.raised)
               /\ UNCHANGED <<taskIdx, netlog>>
          ELSE IF taskIdx < Len(tasks)
            THEN /\ pc' = "control" /\ outcome' = "none"
                 /\ taskIdx' = taskIdx + 1
                 /\ netlog' = Append(netlog, Call("control_device", token, tasks[taskIdx + 1]))
            ELSE /\ pc' = "done" /\ outcome' = client_wrap(res.raised)
                 /\ UNCHANGED <<taskIdx, netlog>>
  /\ signal' = "none"
  /\ shown' = NoShown
  /\ UNCHANGED <<libVars, platformVars, now, vendor, clientVars, op, caller, args, tasks, opStart,
                 lastLoginReply, result, pollVars, data, lamp, curtain>>

\* the vendor answers the scene execution
SceneReply(r) ==
  /\ pc = "scene"
  /\ LET res == execute_scene(r) IN
     /\ lastCtl' = CtlSeen(r, res)
     /\ pc' = "done" /\ outcome' = client_wrap(res.raised)
  /\ signal' = "none"
  /\ shown' = NoShown
  /\ UNCHANGED <<libVars, platformVars, now, vendor, clientVars, op, caller, args, tasks, taskIdx, opStart,
                 netlog, lastLoginReply, result, pollVars, data, lamp, curtain>>

\* process_rooms with async_get_data indexing the dict it gets back
TopologyReplyIndexing(r) ==
  /\ pc = "topology"
  /\ LET res == fetch_sn_and_room_list(r) IN
     IF res.raised # "none"
       THEN /\ pc' = "done" /\ outcome' = res.raised
            /\ UNCHANGED <<netlog, poll, result>>
       ELSE IF res.value = <<>>
         THEN /\ pc' = "done" /\ outcome' = "KeyError"
              /\ UNCHANGED <<netlog, poll, result>>
         ELSE /\ pc' = "scenes" /\ outcome' = "none"
              /\ poll' = [poll EXCEPT !.list = res.value, !.h = 1, !.r = 0]
              /\ netlog' = Append(netlog, Call("fetch_scenes_by_sn", poll.token, NoTask))
              /\ UNCHANGED result
  /\ signal' = Signal(caller, pc', outcome')
  /\ shown' = NoShown
  /\ UNCHANGED <<libVars, platformVars, now, vendor, clientVars, op, caller, args, tasks, taskIdx, opStart,
                 lastLoginReply, lastCtl, served, data, lamp, curtain>>

\* process_rooms: the vendor answers the topology fetch
TopologyReply(r) ==
  /\ pc = "topology"
  /\ LET res == fetch_sn_and_room_list(r) IN
     IF res.raised # "none"
       THEN /\ pc' = "done" /\ outcome' = res.raised
            /\ UNCHANGED <<netlog, poll, result>>
       ELSE IF res.value = <<>>
         THEN /\ pc' = "done" /\ outcome' = "ok"
              /\ result' = Snapshot(<<>>, <<>>, token)
              /\ UNCHANGED <<netlog, poll>>
         ELSE /\ pc' = "scenes" /\ outcome' = "none"
              /\ poll' = [poll EXCEPT !.list = res.value, !.h = 1, !.r = 0]
              /\ netlog' = Append(netlog, Call("fetch_scenes_by_sn", poll.token, NoTask))
              /\ UNCHANGED result
  /\ signal' = Signal(caller, pc', outcome')
  /\ shown' = NoShown
  /\ UNCHANGED <<libVars, platformVars, now, vendor, clientVars, op, caller, args, tasks, taskIdx, opStart,
                 lastLoginReply, lastCtl, served, data, lamp, curtain>>

VendorHost(sn) == vendor[CHOOSE h \in DOMAIN vendor : vendor[h].sn = sn]

Served(r) == r.net = "ok" /\ r.ack = 1 /\ r.list # <<>>
Failed(r) == r.net # "ok" \/ r.ack # 1

\* what the vendor did for the fetch at (sn, room); room 0 is the scene fetch
Seen(sv, r, sn, room) ==
  IF Failed(r) THEN [sv EXCEPT !.failed = @ \cup {<<sn, room>>}]
  ELSE IF ~Served(r) THEN sv
  ELSE IF room = 0 THEN [sv EXCEPT !.scenes = Append(@, [sn |-> sn, list |-> r.list])]
  ELSE [sv EXCEPT !.rooms = Append(@, [sn |-> sn, name |-> room, list |-> r.list])]

\* the loops move on, or the poll returns its snapshot
PollMove(pos, devices_all, scenes_all) ==
  /\ pc' = pos.pc
  /\ poll' = [poll EXCEPT !.h = pos.h, !.r = pos.r,
                          !.devices_all = devices_all, !.scenes_all = scenes_all]
  /\ netlog' = netlog \o PollCall(poll.list, pos, poll.token)
  /\ outcome' = IF pos.pc = "done" THEN "ok" ELSE "none"
  /\ result' = IF pos.pc = "done" THEN Snapshot(devices_all, scenes_all, token)
               ELSE result

\* process_rooms: the vendor answers the scene fetch of host poll.h
ScenesReply(r) ==
  /\ pc = "scenes"
  /\ LET sn == poll.list[poll.h].sn
         st == scenes_step(poll.scenes_all, sn, fetch_scenes_by_sn(r))
     IN /\ served' = Seen(served, r, sn, 0)
        /\ IF st.raised # "none"
             THEN /\ pc' = "done" /\ outcome' = st.raised
                  /\ UNCHANGED <<netlog, poll, result>>
             ELSE PollMove(PollAdvance(poll.list, poll.h, 0), poll.devices_all, st.value)
  /\ signal' = Signal(caller, pc', outcome')
  /\ shown' = NoShown
  /\ UNCHANGED <<libVars, platformVars, now, vendor, clientVars, op, caller, args, tasks, taskIdx, opStart,
                 lastLoginReply, lastCtl, data, lamp, curtain>>

\* process_rooms: the vendor answers the device fetch of room poll.r
RoomReply(r) ==
  /\ pc = "devices"
  /\ LET sn == poll.list[poll.h].sn
         st == devices_step(poll.devices_all, sn, fetch_devices_by_room(r))
     IN /\ served' = Seen(served, r, sn, poll.list[poll.h].room[poll.r].name)
        /\ IF st.raised # "none"
             THEN /\ pc' = "done" /\ outcome' = st.raised
                  /\ UNCHANGED <<netlog, poll, result>>
             ELSE PollMove(PollAdvance(poll.list, poll.h, poll.r), st.value, poll.scenes_all)
  /\ signal' = Signal(caller, pc', outcome')
  /\ shown' = NoShown
  /\ UNCHANGED <<libVars, platformVars, now, vendor, clientVars, op, caller, args, tasks, taskIdx, opStart,
                 lastLoginReply, lastCtl, data, lamp, curtain>>

\* the operation returns (or raises) to its caller, which resumes
Return ==
  /\ pc = "done"
  /\ Continue(caller, args, outcome, result)
  /\ pc' = "idle" /\ op' = "none" /\ caller' = "none" /\ args' = NoArgs
  /\ tasks' = <<>> /\ taskIdx' = 0 /\ outcome' = "none" /\ opStart' = NoStart
  /\ netlog' = <<>> /\ lastLoginReply' = NoReply /\ lastCtl' = NoCtl
  /\ result' = NoData /\ poll' = NoPoll /\ served' = NoServed
  /\ signal' = "none"
  /\ shown' = IF caller = "coordinator" /\ outcome = "ok" /\ data # NoData
                THEN [ent |-> "listener", yid |-> 0, value |-> NoneI,
                      before |-> platform, served |-> served]
              ELSE NoShown
  /\ UNCHANGED <<now, vendor, clientVars, libVars>>

\* ---------------------------------------------------------- entity handlers
LampArgs(y, on) == [NoArgs EXCEPT !.device = y, !.on = on]
CoverArgs(y, action, position) ==
  [NoArgs EXCEPT !.device = y, !.action = action, !.position = position]

\* PuGoingLampLight.async_turn_on / async_turn_off
LampTurnOn(y) ==
  /\ lamp[y].cls = "PuGoingLampLight"
  /\ Start("async_set_lamp_state", "lamp_on", LampArgs(y, "True"))

LampTurnOff(y) ==
  /\ lamp[y].cls = "PuGoingLampLight"
  /\ Start("async_set_lamp_state", "lamp_off", LampArgs(y, "False"))

\* PuGoingCurtain.async_open_cover / close / stop / set_cover_position
CoverOpen(y) == Start("async_set_curtain_state", "cover_open", CoverArgs(y, "open", NoneI))
CoverClose(y) == Start("async_set_curtain_state", "cover_close", CoverArgs(y, "close", NoneI))
CoverStop(y) == Start("async_set_curtain_state", "cover_stop", CoverArgs(y, "stop", NoneI))
CoverSetPosition(y, p) ==
  /\ p # NoneI
  /\ Start("async_set_curtain_state", "cover_set", CoverArgs(y, None, p))

PositionMenu == {30}

\* PuGoingLampLight.is_on
is_on(e, snap, y, t) ==
  IF LampHolds(e.last_manual, t) THEN e.state
  ELSE LET latest == Latest(snap, "Lamp", y) IN
         IF latest # NoDev THEN parse_state(latest.dinfo) ELSE e.state

\* PuGoingCurtain.current_cover_position
current_cover_position(e, snap, y, t) ==
  IF CurtainHolds(e.last_manual, t) THEN e.position
  ELSE LET latest == Latest(snap, "CurtainPG", y) IN
         IF latest # NoDev THEN parse_position(latest.dinfo) ELSE e.position

\* PuGoingRGBCWLight.async_turn_on / async_turn_off
RgbcwTurnOn(y, kw) ==
  /\ lamp[y].cls = "PuGoingRGBCWLight"
  /\ Start("async_set_dimmer_state", "rgbcw_on",
           [NoArgs EXCEPT
              !.device = y, !.on = "True",
              !.brightness = IF Truthy(kw.brightness)
                               THEN IntTrunc(kw.brightness * 100, 255) ELSE NoneI,
              !.color_temp = kw.color_temp,
              !.rgb_hex = IF kw.rgb_color # <<>>
                            THEN Hex2(kw.rgb_color[1]) \o Hex2(kw.rgb_color[2])
                                 \o Hex2(kw.rgb_color[3])
                            ELSE NoneS,
              !.kwargs = kw])

RgbcwTurnOff(y) ==
  /\ lamp[y].cls = "PuGoingRGBCWLight"
  /\ Start("async_set_dimmer_state", "rgbcw_off", [NoArgs EXCEPT !.device = y, !.on = "False"])

KwMenu == {Kw(200, 3000, <<255, 0, 10>>)}

\* PuGoingRGBCWLight._latest: the entity after the call (it parses the dnlp)
rgbcw_latest(e, snap, y, t) ==
  LET dev == Latest(snap, "LampRGBCW", y) IN
    IF dev = NoDev THEN e ELSE parse_rgbcw(e, dev.dnlp, t)

\* is_on of an RGBCW lamp: the entity after the read, whose state is returned
rgbcw_is_on(e, snap, y, t) ==
  IF LampHolds(e.last_manual, t) THEN e
  ELSE LET dev == Latest(snap, "LampRGBCW", y) IN
         IF dev = NoDev THEN e
         ELSE [rgbcw_latest(e, snap, y, t) EXCEPT !.state = parse_state(dev.dinfo)]

\* Home Assistant writes the state of an RGBCW lamp: it reads is_on, then
\* brightness, color_temp and rgb_color, then extra_state_attributes
ReadRgbcw(y) ==
  /\ pc # "done"
  /\ lamp[y].cls = "PuGoingRGBCWLight"
  /\ LET e == rgbcw_is_on(lamp[y], data, y, now) IN
       /\ shown' = [ent |-> "rgbcw", yid |-> y, value |-> e.state,
                    brightness |-> e.brightness, color_temp |-> e.color_temp,
                    rgb |-> e.rgb]
       /\ lamp' = [lamp EXCEPT ![y] = rgbcw_latest(e, data, y, now)]
  /\ UNCHANGED <<libVars, platformVars, now, vendor, clientVars, opVars, pollVars, coordVars, curtain>>

\* Home Assistant reads the displayed state of a lamp
ReadLampIsOn(y) ==
  /\ pc # "done"
  /\ lamp[y].cls = "PuGoingLampLight"
  /\ LET v == is_on(lamp[y], data, y, now) IN
       /\ lamp' = [lamp EXCEPT ![y].state = v]
       /\ shown' = [ent |-> "lamp", yid |-> y, value |-> v]
  /\ UNCHANGED <<libVars, platformVars, now, vendor, clientVars, opVars, pollVars, coordVars, curtain>>

\* Home Assistant reads the displayed position of a curtain
ReadCoverPosition(y) ==
  /\ pc # "done"
  /\ LET v == current_cover_position(curtain[y], data, y, now) IN
       /\ curtain' = [curtain EXCEPT ![y].position = v]
       /\ shown' = [ent |-> "curtain", yid |-> y, value |-> v]
  /\ UNCHANGED <<libVars, platformVars, now, vendor, clientVars, opVars, pollVars, coordVars, lamp>>

\* Home Assistant reads the displayed state of a breaker
ReadBreakerIsOn(y) ==
  /\ pc # "done"
  /\ LET v == breaker_is_on(breaker[y], data, y, now) IN
       /\ breaker' = [breaker EXCEPT ![y].state = v]
       /\ shown' = [ent |-> "breaker", yid |-> y, value |-> v]
  /\ UNCHANGED <<libVars, climate, button, platform, now, vendor, clientVars, opVars,
                 pollVars, coordVars, lamp, curtain>>

\* PuGoingBreakerSwitch.async_turn_on / async_turn_off: the lookup of
\* client.async_set_breaker_state raises, which the handler's except clause
\* (PuGoingAPIError) does not catch
BreakerTurn(y, on) ==
  /\ pc = "idle"
  /\ client_getattr("async_set_breaker_state") # "none"
  /\ shown' = [ent |-> "breaker_handler", yid |-> y, value |-> NoneI, on |-> on,
               raised |-> client_getattr("async_set_breaker_state")]
  /\ UNCHANGED <<libVars, platformVars, now, vendor, clientVars, opVars, pollVars,
                 coordVars, lamp, curtain>>

BreakerTurnOn(y) == BreakerTurn(y, TRUE)
BreakerTurnOff(y) == BreakerTurn(y, FALSE)

\* ---------------------------------------------------------------- the clock
ExpiryEdge == TOKEN_LIFETIME - TOKEN_BUF
Instants == (0..TickSpan) \cup {ExpiryEdge + d : d \in 0..TickSpan}

\* PuGoingLampLight.available, with the _latest of the entity's class
available(e, snap, y) ==
  IF e.cls = "PuGoingRGBCWLight" THEN Latest(snap, "LampRGBCW", y) # NoDev
  ELSE Latest(snap, "Lamp", y) # NoDev

\* Home Assistant reads whether a light is available
ReadAvailable(y) ==
  /\ pc # "done"
  /\ shown' = [ent |-> "available", yid |-> y, value |-> NoneI,
               available |-> available(lamp[y], data, y)]
  /\ lamp' = IF lamp[y].cls = "PuGoingRGBCWLight"
               THEN [lamp EXCEPT ![y] = rgbcw_latest(@, data, y, now)]
             ELSE lamp
  /\ UNCHANGED <<libVars, platformVars, now, vendor, clientVars, opVars, pollVars,
                 coordVars, curtain>>

Others == <<libVars, platformVars, vendor, clientVars, opVars, pollVars, coordVars, lamp, curtain>>

\* time passes to a later sampled instant (around the token's expiry edge)
TickToken ==
  /\ pc # "done"
  /\ \E t \in Instants : t > now /\ now' = t
  /\ shown' = NoShown
  /\ UNCHANGED Others

\* one second passes
TickSec ==
  /\ pc # "done"
  /\ now < MaxNow
  /\ now' = now + 1
  /\ shown' = NoShown
  /\ UNCHANGED Others

\* Home Assistant calls async_update of a climate entity
ClimateUpdate(y) ==
  /\ pc # "done"
  /\ LET dev == Latest(data, "VRV", y)
         e == climate[y]
         val == NewValues(e, dev.dcap)
         ran == dev # NoDev /\ ~CapsMalformed(dev.dcap)
         after == async_update(e, data, y, now)
     IN /\ climate' = [climate EXCEPT ![y] =
             IF ~ran THEN after
             ELSE [after EXCEPT
                     !.polled = val,
                     !.polled_at = [k \in VrvKeys |->
                                      IF e.polled[k] # val[k] THEN now ELSE @[k]]]]
        /\ shown' = [ent |-> "climate", yid |-> y, value |-> val, before |-> e,
                     ran |-> ran]
  /\ UNCHANGED <<now, vendor, clientVars, opVars, pollVars, coordVars, lamp, curtain,
                 libVars, button, platform, breaker>>

\* Home Assistant reads hvac_mode, fan_mode and target_temperature
ReadClimate(y) ==
  /\ pc # "done"
  /\ shown' = [ent |-> "climate_read", yid |-> y, value |-> NoneI,
               hvac_mode |-> climate[y].hvac_mode, fan_mode |-> climate[y].fan_mode,
               temperature |-> climate[y].temperature]
  /\ UNCHANGED <<libVars, platformVars, now, vendor, clientVars, opVars, pollVars,
                 coordVars, lamp, curtain>>

\* PuGoingVRVClimate.async_set_temperature
ClimateSetTemperature(y, temp) ==
  Start("async_set_vrv_state", "vrv_temperature",
        [NoArgs EXCEPT !.device = y, !.temperature = temp])

ClimateInstants ==
  (0..ClimateSpan) \cup {VRV_CONFIRM_SECONDS + d : d \in 0..ClimateSpan}

\* time passes to a later sampled instant (around the confirmation edge)
TickClimate ==
  /\ pc # "done"
  /\ \E t \in ClimateInstants : t > now /\ now' = t
  /\ shown' = NoShown
  /\ UNCHANGED Others

\* PuGoingSceneButton.async_press; press notes the attempt, whether it went
\* on to the client call, and when the scene's last press or firing was
ButtonPress(sid) ==
  /\ pc = "idle"
  /\ LET e == button.ents[sid]
         ok == can_trigger(e, now)
     IN /\ button' = [button EXCEPT
               !.ents[sid] = IF ok THEN [e EXCEPT !.last_trigger = now,
                                                  !.last_sinfo = MANUAL_SINFO,
                                                  !.last_event = now]
                             ELSE [e EXCEPT !.last_event = now],
               !.press = [sid |-> sid, at |-> now, ran |-> ok, before |-> e.last_event,
                          seen |-> e.polled]]
        /\ IF ok
             THEN /\ Begin("async_execute_scene", "scene_press",
                           [NoArgs EXCEPT !.device = sid])
                  /\ UNCHANGED <<climate, platform, breaker>>
             ELSE /\ shown' = NoShown
                  /\ UNCHANGED <<libVars, climate, platform, breaker, now, vendor, clientVars,
                                 opVars, pollVars, coordVars, lamp, curtain>>

ButtonInstants ==
  (0..ButtonSpan) \cup {BUTTON_STATE_DEBOUNCE_SECONDS + d : d \in 0..ButtonSpan}

\* time passes to a later sampled instant (around the button's window edge)
TickButton ==
  /\ pc # "done"
  /\ \E t \in ButtonInstants : t > now /\ now' = t
  /\ shown' = NoShown
  /\ UNCHANGED Others

\* one second passes for the RGBCW entity
TickRgbcw ==
  /\ pc # "done"
  /\ now < MaxNowRgbcw
  /\ now' = now + 1
  /\ shown' = NoShown
  /\ UNCHANGED Others

\* ------------------------------------------------------- calls of the client
\* the device the client-level calls address: the lamp of TokenWorld
WatchedId == TokenWorld[1].room[1].devs[1].yid
D(on, b, ct, rgb) ==
  [NoArgs EXCEPT !.device = WatchedId, !.on = on, !.brightness = b,
                 !.color_temp = ct, !.rgb_hex = rgb]
V(power, mode, fan, temp) ==
  [NoArgs EXCEPT !.device = WatchedId, !.power = power, !.mode = mode,
                 !.fan_mode = fan, !.temperature = temp]

Red == <<"f", "f", "0", "0", "0", "0">>

DimmerMenu ==
  {D(None, NoneI, NoneI, NoneS), D("True", NoneI, NoneI, NoneS),
   D("False", NoneI, NoneI, NoneS), D("True", 50, NoneI, NoneS),
   D(None, 101, NoneI, NoneS), D("True", NoneI, 1500, NoneS),
   D(None, NoneI, 6500, NoneS), D(None, NoneI, 100, NoneS),
   D(None, NoneI, NoneI, Red), D("True", 50, NoneI, <<"f", "f">>),
   D("True", 100, 2000, Red)}

VrvMenu ==
  {V(None, None, None, NoneI), V("True", None, None, NoneI),
   V("False", "cool", None, NoneI), V(None, "heat", "high", 24),
   V("True", "auto", None, 15), V(None, "dry", "low", 31),
   V(None, "fan_only", "medium", 16)}

CurtainMenu ==
  {CoverArgs(WatchedId, "open", NoneI), CoverArgs(WatchedId, "close", NoneI),
   CoverArgs(WatchedId, "stop", NoneI), CoverArgs(WatchedId, None, 65),
   CoverArgs(WatchedId, "open", 65), CoverArgs(WatchedId, None, NoneI),
   CoverArgs(WatchedId, "toggle", NoneI), CoverArgs(WatchedId, None, 0),
   CoverArgs(WatchedId, "stop", 0), CoverArgs(WatchedId, "toggle", 7)}

\* async_set_dimmer_state called with one sub-intent, over every value of it
BrightnessInputs == (0 - Margin)..(100 + Margin)
ColorTempInputs == (0 - Margin)..(6500 + Margin)
RgbInputs ==
  {Red, <<"F", "F", "0", "0", "a", "a">>, <<"g", "g", "0", "0", "0", "0">>,
   <<"f", "f">>, <<"f", "f", "0", "0", "0", "0", "0">>, <<>>}

EncodeMenu ==
  {D(None, b, NoneI, NoneS) : b \in BrightnessInputs}
  \cup {D(None, NoneI, c, NoneS) : c \in ColorTempInputs}
  \cup {D(None, NoneI, NoneI, h) : h \in RgbInputs}

SetDimmerAny == \E a \in EncodeMenu : Start("async_set_dimmer_state", "client", a)

\* ---- dnlp payloads handed to _parse_rgbcw
Payload(pw, bri, ct, r, g, b) ==
  RgbcwPrefix \o pw \o <<"0", "0">> \o bri \o ct \o r \o g \o b

ValidPayloads ==
  {Payload(<<"0", "3">>, Hex2(v), Hex2(v), Hex2(v), Hex2(v), Hex2(v)) : v \in 0..MaxByte}
  \cup {Payload(<<"0", "0">>, <<"0", "a">>, <<"1", "4">>, <<"3", "2">>, <<"6", "4">>,
                <<"0", "0">>),
        Payload(<<"0", "3">>, <<"3", "2">>, <<"0", "a">>, <<"0", "a">>, <<"1", "4">>,
                <<"6", "4">>) \o <<"f", "f">>}

MalformedPayloads ==
  {<<>>,
   <<"r", "g", "b", "c", "w", ":">> \o SubSeq(Payload(<<"0", "3">>, Hex2(1), Hex2(2),
                                                      Hex2(3), Hex2(4), Hex2(5)), 7, 20),
   SubSeq(Payload(<<"0", "3">>, Hex2(1), Hex2(2), Hex2(3), Hex2(4), Hex2(5)), 1, 19),
   Payload(<<"0", "3">>, <<"z", "z">>, Hex2(2), Hex2(3), Hex2(4), Hex2(5)),
   Payload(<<"0", "3">>, Hex2(1), Hex2(2), Hex2(3), Hex2(4), <<"5", "g">>),
   Payload(<<"0", "3">>, Hex2(1), <<"-", "-">>, Hex2(3), Hex2(4), Hex2(5)),
   Payload(<<"z", "z">>, Hex2(1), Hex2(2), Hex2(3), Hex2(4), Hex2(5)),
   Payload(<<"0", "3">>, <<"+", "a">>, Hex2(2), Hex2(3), Hex2(4), Hex2(5)),
   Payload(<<"0", "0">>, Hex2(1), Hex2(2), <<" ", "7">>, Hex2(4), Hex2(5))}

\* the light platform creates the entity of an RGBCW device
ConstructRgbcw(raw) ==
  /\ pc = "idle" /\ lamp = <<>>
  /\ lamp' = [y \in {WatchedId} |->
                NewLamp([yid |-> y, dpanel |-> "LampRGBCW", dinfo |-> InfoOn,
                         dnlp |-> raw, dcap |-> <<>>, sn |-> 1])]
  /\ shown' = NoShown
  /\ UNCHANGED <<libVars, platformVars, now, vendor, clientVars, opVars, pollVars, coordVars, curtain>>

\* _parse_rgbcw is called on the next payload of the device
ParsePayload(raw) ==
  /\ pc = "idle" /\ lamp # <<>> /\ shown = NoShown
  /\ lamp' = [lamp EXCEPT ![WatchedId] = parse_rgbcw(@, raw, now)]
  /\ shown' = [ent |-> "parsed", yid |-> WatchedId, value |-> raw,
               before |-> lamp[WatchedId]]
  /\ UNCHANGED <<libVars, platformVars, now, vendor, clientVars, opVars, pollVars, coordVars, curtain>>

Construct == \E raw \in ValidPayloads \cup MalformedPayloads : ConstructRgbcw(raw)
Parse == \E raw \in ValidPayloads \cup MalformedPayloads : ParsePayload(raw)

\* the coordinator's refresh calls async_get_data
Poll == Start("async_get_data", "coordinator", NoArgs)

SetLamp == \E on \in {"True", "False"} :
  Start("async_set_lamp_state", "client", LampArgs(WatchedId, on))
SetDimmer == \E a \in DimmerMenu : Start("async_set_dimmer_state", "client", a)
SetCurtain == \E a \in CurtainMenu : Start("async_set_curtain_state", "client", a)
SetVrv == \E a \in VrvMenu : Start("async_set_vrv_state", "client", a)
ExecuteScene == Start("async_execute_scene", "client", NoArgs)

OnLogin == \E r \in LoginReplies : LoginReply(r)
OnControl == \E r \in AckReplies : ControlReply(r)
OnScene == \E r \in AckReplies : SceneReply(r)
OnTopology == \E r \in ListReplies({SnRoomList}) : TopologyReply(r)
OnScenes ==
  /\ pc = "scenes"
  /\ \E r \in ListReplies({VendorHost(poll.list[poll.h].sn).scenes}) : ScenesReply(r)
\* the vendor answers the scene fetch, each scene's sinfo as it then stands
SceneInfos == {"", "idle", "run"}
SceneLists(scs) == {[k \in DOMAIN scs |-> Scene(scs[k].sid, i)] : i \in SceneInfos}
OnScenesVarying ==
  /\ pc = "scenes"
  /\ \E r \in ListReplies(SceneLists(VendorHost(poll.list[poll.h].sn).scenes)) :
       ScenesReply(r)
OnRoom ==
  /\ pc = "devices"
  /\ \E r \in ListReplies(RoomLists(VendorHost(poll.list[poll.h].sn).room[poll.r].devs)) :
       RoomReply(r)

\* ------------------------------------- get_devices_by_hotel_room_name
\* the sn_list the vendor serves: each host under its own name
SnList == [h \in DOMAIN vendor |-> [name |-> h, sn |-> vendor[h].sn]]

fetch_sn_list(r) ==
  IF r.net # "ok" THEN Raises(NetError(r))
  ELSE IF r.ack = 1 THEN Returns(r.list)
  ELSE Raises("Exception")

NoFanout == [pc |-> "idle", sn |-> 0, rooms |-> <<>>, status |-> <<>>,
             results |-> <<>>, served |-> <<>>, raised |-> "none", returned |-> <<>>]

\* the sn of the first item of sn_list with the wanted name, 0 for ""
SnOfName(sn_list, name) ==
  LET hits == {i \in DOMAIN sn_list : sn_list[i].name = name}
  IN IF hits = {} THEN 0 ELSE sn_list[CHOOSE i \in hits : \A j \in hits : i <= j].sn

\* the room list of the first item of sn_room_list with that sn, or []
RoomsOfSn(sn_room_list, sn) ==
  LET hits == {i \in DOMAIN sn_room_list : sn_room_list[i].sn = sn}
  IN IF hits = {} THEN <<>>
     ELSE sn_room_list[CHOOSE i \in hits : \A j \in hits : i <= j].room

\* the non-empty results of the gathered tasks, in task order
RECURSIVE Gathered(_)
Gathered(results) ==
  IF results = <<>> THEN <<>>
  ELSE LET n == Len(results)
           init == Gathered(SubSeq(results, 1, n - 1))
       IN IF DOMAIN results[n] # {} THEN Append(init, results[n]) ELSE init

\* the two list fetches are gathered; then one task per room is created
FanoutCall(name, r1, r2) ==
  /\ fanout.pc = "idle" /\ fanout.raised = "none" /\ fanout.returned = <<>>
  /\ LET l1 == fetch_sn_list(r1)
         l2 == fetch_sn_and_room_list(r2)
         sn == SnOfName(l1.value, name)
         rooms == RoomsOfSn(l2.value, sn)
     IN fanout' =
          IF l1.raised # "none" THEN [NoFanout EXCEPT !.pc = "done", !.raised = l1.raised]
          ELSE IF l2.raised # "none"
            THEN [NoFanout EXCEPT !.pc = "done", !.raised = l2.raised]
          ELSE [pc |-> IF rooms = <<>> THEN "done" ELSE "gather",
                sn |-> sn, rooms |-> rooms,
                status |-> [i \in DOMAIN rooms |-> "pending"],
                results |-> [i \in DOMAIN rooms |-> <<>>],
                served |-> [i \in DOMAIN rooms |-> <<>>],
                raised |-> "none", returned |-> <<>>]
  /\ UNCHANGED <<now, vendor, clientVars, opVars, pollVars, coordVars, entityVars,
                 platformVars, running>>

\* asyncio.gather without return_exceptions: the first task that raises ends
\* the await with its exception, which the except clause logs
fanout_room(f, i, r) ==
  LET res == fetch_devices_by_room(r)
      st == [f.status EXCEPT ![i] = IF res.raised # "none" THEN res.raised ELSE "ok"]
      rs == [f.results EXCEPT ![i] = IF res.raised # "none" THEN <<>>
                                     ELSE categorize_devices_by_panel(f.sn, res.value)]
      sv == [f.served EXCEPT ![i] = IF res.raised # "none" THEN <<>> ELSE res.value]
  IN IF res.raised # "none"
       THEN [f EXCEPT !.pc = "done", !.status = st, !.returned = merge_dicts(<<>>)]
     ELSE IF \A j \in DOMAIN st : st[j] # "pending"
       THEN [f EXCEPT !.pc = "done", !.status = st, !.results = rs, !.served = sv,
                      !.returned = merge_dicts(Gathered(rs))]
     ELSE [f EXCEPT !.status = st, !.results = rs, !.served = sv]

FanoutRoom(i, r) ==
  /\ fanout.pc = "gather" /\ fanout.status[i] = "pending"
  /\ fanout' = fanout_room(fanout, i, r)
  /\ UNCHANGED <<now, vendor, clientVars, opVars, pollVars, coordVars, entityVars,
                 platformVars, running>>

FanoutStart ==
  \E name \in {0} \cup DOMAIN vendor, r1 \in ListReplies({SnList}),
     r2 \in ListReplies({SnRoomList}) : FanoutCall(name, r1, r2)

OnFanoutRoom ==
  \E i \in DOMAIN fanout.rooms :
    \E r \in ListReplies(RoomLists(VendorHost(fanout.sn).room[i].devs)) : FanoutRoom(i, r)

\* ------------------------------------ operations side by side on one client
\* Each is a control operation with a bundle of BundleLen tasks: its
\* _async_ensure_token, its own login where the test asks for one, then its
\* control calls, each carrying self._token as it stands when the call is made.
\* issued, last, logins and raced note the tokens successful logins returned
\* (the one held at the start included), the last successful login, the
\* number of logins finished, and whether a test saw a stale token while
\* another operation's login was in flight.
Ops2 == 1..NumOps

NoRunning(tok, ts) ==
  [op |-> [i \in Ops2 |-> [pc |-> "idle", login |-> "none", used |-> <<>>,
                           outcome |-> "none"]],
   issued |-> {tok} \ {NoToken}, last |-> [tok |-> tok, ts |-> ts],
   logins |-> 0, raced |-> FALSE]

RunFrame ==
  UNCHANGED <<now, vendor, lastLogin, opVars, pollVars, coordVars, entityVars,
              platformVars, fanout>>

\* the operation is called and runs _async_ensure_token up to its await
RunEnsure(i) ==
  /\ running.op[i].pc = "idle"
  /\ LET stale == TokenExpired(token, token_ts, now)
         others == {j \in Ops2 : running.op[j].pc = "login"}
     IN running' = [running EXCEPT
                      !.op[i].pc = IF stale THEN "login" ELSE "call",
                      !.raced = @ \/ (stale /\ others # {})]
  /\ UNCHANGED <<token, token_ts>>
  /\ RunFrame

\* the vendor answers the operation's login: _async_login resumes
RunLoginReply(i, r) ==
  /\ running.op[i].pc = "login"
  /\ LET l == async_login(token, token_ts, r, now) IN
       /\ token' = l.token /\ token_ts' = l.token_ts
       /\ running' = [running EXCEPT
            !.op[i].pc = IF l.raised = "none" THEN "call" ELSE "done",
            !.op[i].login = IF l.raised = "none" THEN "ok" ELSE "failed",
            !.op[i].outcome = IF l.raised = "none" THEN "none" ELSE l.raised,
            !.issued = IF l.raised = "none" THEN @ \cup {login(r).value} ELSE @,
            !.last = IF l.raised = "none" THEN [tok |-> login(r).value, ts |-> now] ELSE @,
            !.logins = @ + 1]
  /\ RunFrame

\* the operation makes its next control_device call
RunCall(i) ==
  /\ running.op[i].pc = "call"
  /\ running' = [running EXCEPT !.op[i].pc = "await",
                                !.op[i].used = Append(@, token)]
  /\ UNCHANGED <<token, token_ts>>
  /\ RunFrame

\* the vendor answers it
RunCallReply(i, r) ==
  /\ running.op[i].pc = "await"
  /\ LET res == control_device(r) IN
       running' = [running EXCEPT
         !.op[i].pc = IF res.raised = "none" /\ Len(running.op[i].used) < BundleLen
                        THEN "call" ELSE "done",
         !.op[i].outcome = IF res.raised # "none" THEN client_wrap(res.raised)
                           ELSE IF Len(running.op[i].used) < BundleLen THEN "none"
                           ELSE "ok"]
  /\ UNCHANGED <<token, token_ts>>
  /\ RunFrame

RunStep(i) ==
  \/ RunEnsure(i)
  \/ \E r \in LoginReplies : RunLoginReply(i, r)
  \/ RunCall(i)
  \/ \E r \in AckReplies : RunCallReply(i, r)

\* ----------------------------------------------------------- specifications
InitWatching(world, tok, ts, watch) ==
  /\ now = 0 /\ vendor = world
  /\ token = tok /\ token_ts = ts
  /\ lastLogin = [tok |-> tok, ts |-> ts]
  /\ pc = "idle" /\ op = "none" /\ caller = "none" /\ args = NoArgs
  /\ tasks = <<>> /\ taskIdx = 0 /\ outcome = "none" /\ opStart = NoStart
  /\ netlog = <<>> /\ lastLoginReply = NoReply /\ lastCtl = NoCtl
  /\ result = NoData /\ poll = NoPoll /\ served = NoServed
  /\ data = NoData /\ signal = "none"
  /\ lamp = <<>> /\ curtain = <<>> /\ shown = NoShown
  /\ climate = <<>> /\ breaker = <<>>
  /\ platform = [p \in Platforms |-> NoPlatform]
  /\ button = [watch |-> watch, ents |-> <<>>, press |-> NoPress]
  /\ fanout = NoFanout
  /\ running = NoRunning(tok, ts)

InitWith(world, tok, ts) == InitWatching(world, tok, ts, FALSE)

\* the client as constructed: no token, the clock around the expiry edge
Init == InitWith(TokenWorld, NoToken, NoTs)

Next ==
  \/ TickToken
  \/ Poll \/ SetLamp \/ SetDimmer \/ SetCurtain \/ SetVrv \/ ExecuteScene
  \/ OnLogin \/ OnControl \/ OnScene \/ OnTopology \/ OnScenes \/ OnRoom
  \/ Return

Spec == Init /\ [][Next]_vars

\* one poll over a grid of hosts and rooms, the client logged in, from the
\* coordinator's call to the snapshot (or the error) it gets back
InitPoll == InitWith(GridWorld, 1, 0)

NextPoll ==
  \/ Poll \/ OnTopology \/ OnScenes \/ OnRoom

SpecPoll == InitPoll /\ [][NextPoll]_vars

\* the encode step of async_set_dimmer_state over its whole input range, the
\* client logged in
InitDimmer == InitWith(TokenWorld, 1, 0)

NextDimmer == SetDimmerAny \/ OnControl \/ Return

SpecDimmer == InitDimmer /\ [][NextDimmer]_vars

\* _parse_rgbcw alone: an RGBCW entity is built from one payload and then
\* handed another one
InitParse == InitWith(TokenWorld, 1, 0)

NextParse == Construct \/ Parse

SpecParse == InitParse /\ [][NextParse]_vars

\* one poll of a vendor that lists a device under more than one room
InitShared == InitWith(SharedWorld, 1, 0)

SpecShared == InitShared /\ [][NextPoll]_vars

\* an entity of each stateful kind from its creation on, never controlled
\* by hand: polls, reads of the displayed state and updates of the climate
\* entity
InitKinds == InitWith(KindsWorld, 1, 0)

NextKinds ==
  \/ Poll \/ OnTopology \/ OnScenes \/ OnRoom \/ Return
  \/ \E y \in DOMAIN lamp : ReadLampIsOn(y) \/ ReadRgbcw(y)
  \/ \E y \in DOMAIN curtain : ReadCoverPosition(y)
  \/ \E y \in DOMAIN breaker : ReadBreakerIsOn(y)
  \/ \E y \in DOMAIN climate : ClimateUpdate(y) \/ ReadClimate(y)

SpecKinds == InitKinds /\ [][NextKinds]_vars

\* one breaker entity, second by second, the client logged in
InitBreaker == InitWith(BreakerWorld, 1, 0)

NextBreaker ==
  \/ TickSec
  \/ Poll \/ OnTopology \/ OnScenes \/ OnRoom
  \/ \E y \in DOMAIN breaker :
       BreakerTurnOn(y) \/ BreakerTurnOff(y) \/ ReadBreakerIsOn(y)
  \/ Return

SpecBreaker == InitBreaker /\ [][NextBreaker]_vars

\* one poll over hosts whose rooms list several devices
InitOrder == InitWith(OrderWorld, 1, 0)

SpecOrder == InitOrder /\ [][NextPoll]_vars

\* one call of get_devices_by_hotel_room_name for a host of several rooms
InitFanout == InitWith(FanoutWorld, 1, 0)

NextFanout == FanoutStart \/ OnFanoutRoom

SpecFanout == InitFanout /\ [][NextFanout]_vars

\* one climate entity, second by second, the client logged in
InitClimate == InitWith(VrvWorld, 1, 0)

NextClimate ==
  \/ TickClimate
  \/ Poll \/ OnTopology \/ OnScenes \/ OnRoom
  \/ \E y \in DOMAIN climate :
       \/ ClimateUpdate(y)
       \/ ClimateSetTemperature(y, 20)
  \/ OnControl
  \/ Return

SpecClimate == InitClimate /\ [][NextClimate]_vars

\* the lamp, RGBCW lamp and curtain handlers with every way their client
\* call can end, the client not yet logged in
InitManual ==
  \E w \in {LampWorld, CurtainWorld, RgbcwWorld} : InitWith(w, NoToken, NoTs)

NextManual ==
  \/ Poll \/ OnLogin \/ OnTopology \/ OnScenes \/ OnRoom
  \/ \E y \in DOMAIN lamp :
       \/ LampTurnOn(y) \/ LampTurnOff(y)
       \/ \E kw \in KwMenu : RgbcwTurnOn(y, kw)
       \/ RgbcwTurnOff(y)
  \/ \E y \in DOMAIN curtain :
       \/ CoverOpen(y) \/ CoverClose(y) \/ CoverStop(y)
       \/ \E p \in PositionMenu : CoverSetPosition(y, p)
  \/ OnControl
  \/ Return

SpecManual == InitManual /\ [][NextManual]_vars

\* operations side by side around the token's expiry edge, the client either
\* never logged in or holding a token from time 0; every await ends (the
\* vendor answers or the timeout fires) and the event loop resumes its task
InitRace ==
  \E held \in {<<NoToken, NoTs>>, <<1, 0>>} : InitWith(TokenWorld, held[1], held[2])

NextRace ==
  \/ TickToken
  \/ \E i \in Ops2 : RunStep(i)

SpecRace ==
  InitRace /\ [][NextRace]_vars /\ \A i \in Ops2 : WF_vars(RunStep(i))

\* the platforms over polls in which rooms and scenes come and go
InitPlatforms == InitWith(PlatformWorld, 1, 0)

NextPlatforms ==
  \/ Poll \/ OnTopology \/ OnScenes \/ OnRoom
  \/ Return
  \/ \E y \in DOMAIN lamp : ReadAvailable(y)

SpecPlatforms == InitPlatforms /\ [][NextPlatforms]_vars

\* the scene buttons: polls whose scene lists vary, presses, and the clock
\* around the suppression window
InitButton == InitWatching(TokenWorld, 1, 0, TRUE)

NextButton ==
  \/ TickButton
  \/ Poll \/ OnTopology \/ OnScenesVarying \/ OnRoom
  \/ \E sid \in DOMAIN button.ents : ButtonPress(sid)
  \/ OnScene
  \/ Return

SpecButton == InitButton /\ [][NextButton]_vars

\* one RGBCW lamp entity, second by second, the client logged in
InitRgbcw == InitWith(RgbcwWorld, 1, 0)

NextRgbcw ==
  \/ TickRgbcw
  \/ Poll \/ OnTopology \/ OnScenes \/ OnRoom
  \/ \E y \in DOMAIN lamp :
       \/ \E kw \in KwMenu : RgbcwTurnOn(y, kw)
       \/ RgbcwTurnOff(y)
       \/ ReadRgbcw(y)
  \/ OnControl
  \/ Return

SpecRgbcw == InitRgbcw /\ [][NextRgbcw]_vars

\* one lamp or one curtain entity, second by second, the client logged in
InitEntity ==
  \E w \in {LampWorld, CurtainWorld} : InitWith(w, 1, 0)

NextEntity ==
  \/ TickSec
  \/ Poll \/ OnTopology \/ OnScenes \/ OnRoom
  \/ \E y \in DOMAIN lamp : LampTurnOn(y) \/ LampTurnOff(y) \/ ReadLampIsOn(y)
  \/ \E y \in DOMAIN curtain :
       \/ CoverOpen(y) \/ CoverClose(y) \/ CoverStop(y)
       \/ \E p \in PositionMenu : CoverSetPosition(y, p)
       \/ ReadCoverPosition(y)
  \/ OnControl
  \/ Return

SpecEntity == InitEntity /\ [][NextEntity]_vars

\* ------------------------------------------------------------------- claims
Threshold == TOKEN_LIFETIME - TOKEN_BUF
LoginCalls == {i \in DOMAIN netlog : netlog[i].call = "login"}
RemoteCalls == {i \in DOMAIN netlog : netlog[i].call # "login"}
CallsOf(name) == Cardinality({i \in DOMAIN netlog : netlog[i].call = name})
StaleAtStart == opStart.token = NoToken \/ opStart.at - opStart.ts > Threshold

\* C1: an operation performs exactly one login, before any other request,
\* when it starts with no token or with a token older than 24 h - 5 min, and
\* no login at all when it starts with a younger token.
C1_LoginExactlyWhenStale ==
  pc # "idle" =>
    /\ Cardinality(LoginCalls) = IF StaleAtStart THEN 1 ELSE 0
    /\ \A i \in LoginCalls : i = 1

C1_Witness ==
  /\ pc = "done" /\ outcome = "ok"
  /\ opStart.token # NoToken /\ opStart.at - opStart.ts = Threshold + 1
  /\ Cardinality(LoginCalls) = 1 /\ RemoteCalls # {}

\* C2: every transport call other than login carries a held token, the one
\* of the last successful login, which was not older than 24 h - 5 min when
\* the operation checked it; an operation whose login failed issues no such
\* call.
C2_CallsAfterEnsure ==
  /\ \A i \in RemoteCalls :
       /\ netlog[i].token # NoToken
       /\ netlog[i].token = lastLogin.tok
       /\ opStart.at - lastLogin.ts <= Threshold
  /\ (pc = "done" /\ outcome = "AuthenticationError") => RemoteCalls = {}

C2_Witness ==
  /\ pc = "control"
  /\ opStart.token # NoToken /\ opStart.at - opStart.ts > Threshold
  /\ LoginCalls = {1} /\ RemoteCalls # {}
  /\ netlog[Len(netlog)].token = token

\* C3: a login rejected with ack = 0 in an HTTP-200 envelope and a login
\* answered with a non-200 status both end the operation with the client's
\* AuthenticationError.
C3_LoginRejectionIsAuthError ==
  (pc = "done" /\ lastLoginReply.net = "ok"
     /\ (lastLoginReply.http # 200 \/ lastLoginReply.ack = 0))
    => outcome = "AuthenticationError"

C3_Witness ==
  /\ pc = "done" /\ lastLoginReply.net = "ok"
  /\ lastLoginReply.http = 200 /\ lastLoginReply.ack = 0
  /\ outcome = "AuthenticationError"

\* C4: token and issued_at are both unset or both written by the same
\* successful login, and a failed login attempt leaves both as they were.
TokenPairWhole ==
  \/ token = NoToken /\ token_ts = NoTs
  \/ token # NoToken /\ token = lastLogin.tok /\ token_ts = lastLogin.ts

C4_TokenReplacedWholesale ==
  /\ []TokenPairWhole
  /\ [][(pc = "login" /\ pc' = "done" /\ outcome' = "AuthenticationError")
          => (token' = token /\ token_ts' = token_ts)]_vars

C4_Witness ==
  /\ pc = "done" /\ outcome = "AuthenticationError"
  /\ token # NoToken /\ token_ts = lastLogin.ts /\ now - token_ts > Threshold

\* C5: after a successful manual control at t0, a read of is_on or
\* current_cover_position less than 5 s later returns the locally set value
\* whatever the latest snapshot says, and a read 5 s later or more returns
\* the value decoded from the device's record in the latest snapshot.
ReadAgrees(e, window, latest, decoded) ==
  e.set_at # NoTs =>
    IF now - e.set_at < window THEN shown.value = e.set_value
    ELSE latest # NoDev => shown.value = decoded

C5_DebounceWindow ==
  /\ shown.ent = "lamp" =>
       LET latest == Latest(data, "Lamp", shown.yid) IN
         ReadAgrees(lamp[shown.yid], LAMP_STATE_DEBOUNCE_SECONDS, latest,
                    parse_state(latest.dinfo))
  /\ shown.ent = "curtain" =>
       LET latest == Latest(data, "CurtainPG", shown.yid) IN
         ReadAgrees(curtain[shown.yid], CURTAIN_STATE_DEBOUNCE_SECONDS, latest,
                    parse_position(latest.dinfo))

\* a lamp turned on at t0, read at t0 + 3 s over a snapshot that says off
C5_Witness ==
  /\ shown.ent = "lamp"
  /\ lamp[shown.yid].set_at # NoTs /\ now - lamp[shown.yid].set_at = 3
  /\ lamp[shown.yid].set_value = TRUE /\ shown.value = TRUE
  /\ Latest(data, "Lamp", shown.yid) # NoDev
  /\ ~parse_state(Latest(data, "Lamp", shown.yid).dinfo)

\* the same lamp read at t0 + 6 s: the snapshot's off is displayed
C5_WitnessAfter ==
  /\ shown.ent = "lamp"
  /\ lamp[shown.yid].set_at # NoTs /\ now - lamp[shown.yid].set_at = 6
  /\ lamp[shown.yid].set_value = TRUE /\ shown.value = FALSE

\* a curtain opened at t0, read at t0 + 5 s over a snapshot that says 65 %
C5_WitnessCurtain ==
  /\ shown.ent = "curtain"
  /\ curtain[shown.yid].set_at # NoTs /\ now - curtain[shown.yid].set_at = 5
  /\ curtain[shown.yid].set_value = 100 /\ shown.value = 65

\* C6: once the topology is fetched, no failure of a scene fetch or of a room
\* fetch aborts the poll: every host's scenes and every room's devices are
\* asked for, the poll returns, and its snapshot holds exactly the scenes and
\* the devices the vendor served, the failing hosts and rooms left out.
RoomCount(list) ==
  Cardinality({hr \in (DOMAIN list) \X (1..NumRooms) : hr[2] \in DOMAIN list[hr[1]].room})
SnapshotDevices(snap) ==
  {kd \in (DOMAIN snap.devices_by_type) \X (1..(NumHosts * NumRooms)) :
     kd[2] \in DOMAIN snap.devices_by_type[kd[1]]}
ServedDevices ==
  {ij \in (DOMAIN served.rooms) \X (1..NumRooms) : ij[2] \in DOMAIN served.rooms[ij[1]].list}
InSnapshot(snap, sn, d) ==
  \E i \in DOMAIN Bucket(snap, Panel(d)) :
    LET x == Bucket(snap, Panel(d))[i] IN
      x.yid = d.yid /\ x.sn = sn /\ x.dinfo = d.dinfo /\ x.dpanel = d.dpanel

C6_FailuresDoNotAbortPoll ==
  (op = "async_get_data" /\ poll.list # <<>>) =>
    /\ pc \in {"scenes", "devices", "done"}
    /\ pc = "done" =>
         /\ outcome = "ok"
         /\ CallsOf("fetch_scenes_by_sn") = Len(poll.list)
         /\ CallsOf("fetch_devices_by_room") = RoomCount(poll.list)
         /\ DOMAIN result.scenes_by_sn = {served.scenes[i].sn : i \in DOMAIN served.scenes}
         /\ \A i \in DOMAIN served.scenes :
              result.scenes_by_sn[served.scenes[i].sn] = served.scenes[i].list
         /\ \A ij \in ServedDevices :
              InSnapshot(result, served.rooms[ij[1]].sn, served.rooms[ij[1]].list[ij[2]])
         /\ Cardinality(SnapshotDevices(result)) = Cardinality(ServedDevices)
         /\ \A f \in served.failed :
              IF f[2] = 0 THEN f[1] \notin DOMAIN result.scenes_by_sn
              ELSE \A kd \in SnapshotDevices(result) :
                     LET x == result.devices_by_type[kd[1]][kd[2]] IN
                       ~(x.sn = f[1] /\ x.yid = f[1] * 10 + f[2])

\* host 1's scene fetch and its first room fail; its second room and host 2
\* are in the snapshot
C6_Witness ==
  /\ pc = "done" /\ outcome = "ok"
  /\ served.failed = {<<1, 0>>, <<1, 1>>}
  /\ DOMAIN result.scenes_by_sn = (DOMAIN poll.list) \ {1}
  /\ Cardinality(SnapshotDevices(result)) = RoomCount(poll.list) - 1

\* C7: a poll that fails ends with the client's CommunicationError or
\* AuthenticationError, and the coordinator signals UpdateFailed or
\* ConfigEntryAuthFailed and nothing else.
C7_PollFailsWithTwoKinds ==
  (pc = "done" /\ caller = "coordinator" /\ outcome # "ok") =>
    /\ outcome \in {"CommunicationError", "AuthenticationError"}
    /\ signal \in {"UpdateFailed", "ConfigEntryAuthFailed"}

\* C8: a control_device call answered with ack = 0 never returns normally,
\* and the operation that issued it does not end in success.
ControlOps == {"async_set_lamp_state", "async_set_dimmer_state",
               "async_set_curtain_state", "async_set_vrv_state"}

C8_AckZeroAlwaysRaises ==
  (op \in ControlOps /\ lastCtl.net = "ok" /\ lastCtl.ack = 0) =>
    /\ ~lastCtl.returned
    /\ pc = "done" /\ outcome = "CommunicationError"

\* C9: a control or scene request rejected with the host-offline or the
\* no-permission message ends the client operation with an error.
C9_RejectionPropagates ==
  (lastCtl.net = "ok" /\ lastCtl.ack = 0
     /\ lastCtl.msg \in {MsgOffline, MsgNoPermission})
    => (pc = "done" /\ outcome = "CommunicationError")

\* the second call of a dimmer bundle is refused for lack of permission
C9_Witness ==
  /\ pc = "done" /\ op = "async_set_dimmer_state" /\ taskIdx = 2
  /\ lastCtl.ack = 0 /\ lastCtl.msg = MsgNoPermission
  /\ outcome = "CommunicationError"

C9_WitnessScene ==
  /\ pc = "done" /\ op = "async_execute_scene"
  /\ lastCtl.ack = 0 /\ lastCtl.msg = MsgOffline
  /\ outcome = "CommunicationError"

\* C10: a call that fails validation has issued no network request.
C10_ValidationBeforeNetwork ==
  (pc = "done" /\ outcome = "ValueError") => netlog = <<>>

\* C11: a dimmer or VRV bundle is sent as separate control_device calls in
\* the order power, brightness (mode), color temperature (fan speed), RGB
\* (temperature); a call is issued only after the one before it has returned;
\* when a call raises, no later call is issued and the caller gets the
\* client's CommunicationError.
BundleOps == {"async_set_dimmer_state", "async_set_vrv_state"}
ControlCalls == LET IsCtl(c) == c.call = "control_device" IN SelectSeq(netlog, IsCtl)
Rank(key) ==
  CASE Head(key) \in {"LAMP_OPEN", "LAMP_CLOSE", "VRV_OPEN", "VRV_CLOSE"} -> 1
    [] Head(key) \in {"LAMP_BRI", "VRV_MCOLD", "VRV_MHOT", "VRV_MDRY", "VRV_MWIND"} -> 2
    [] Head(key) \in {"LAMP_CCT", "VRV_WSH", "VRV_WSM", "VRV_WSL"} -> 3
    [] OTHER -> 4

BundleInOrder ==
  op \in BundleOps =>
    /\ \A i, j \in DOMAIN ControlCalls :
         i < j => Rank(ControlCalls[i].key) < Rank(ControlCalls[j].key)
    /\ pc \in {"control", "done"} =>
         /\ Len(ControlCalls) = taskIdx
         /\ \A i \in 1..taskIdx :
              /\ ControlCalls[i].key = tasks[i].key
              /\ ControlCalls[i].extra = tasks[i].extra
    /\ (pc = "done" /\ lastCtl.net # "none" /\ ~lastCtl.returned) =>
         outcome = "CommunicationError"

C11_BundleSequentialAbort ==
  /\ []BundleInOrder
  /\ [][(op \in BundleOps /\ Len(netlog') > Len(netlog) /\ pc = "control")
          => (lastCtl'.returned /\ Len(netlog') = Len(netlog) + 1)]_vars
  /\ [][(op \in BundleOps /\ pc = "control" /\ (pc' # pc \/ lastCtl' # lastCtl)
            /\ ~lastCtl'.returned)
          => (pc' = "done" /\ netlog' = netlog)]_vars

\* a bundle of four commands whose second call fails: two calls were issued
C11_Witness ==
  /\ pc = "done" /\ op = "async_set_dimmer_state"
  /\ Len(tasks) = 4 /\ taskIdx = 2 /\ Len(ControlCalls) = 2
  /\ lastCtl.net = "timeout" /\ outcome = "CommunicationError"

\* C12: a dimmer or VRV call all of whose sub-intents are absent issues no
\* control_device call and returns normally.
AllAbsent(o, a) ==
  \/ /\ o = "async_set_dimmer_state"
     /\ a.on = None /\ a.brightness = NoneI /\ a.color_temp = NoneI /\ a.rgb_hex = NoneS
  \/ /\ o = "async_set_vrv_state"
     /\ a.power = None /\ a.mode = None /\ a.fan_mode = None /\ a.temperature = NoneI

C12_WitnessDimmer ==
  /\ pc = "done" /\ op = "async_set_dimmer_state" /\ AllAbsent(op, args)
  /\ Len(netlog) = 1 /\ outcome = "ok"

\* C13: async_set_curtain_state sends exactly one command: open / close /
\* stop select CL_OPEN / CL_CLOSE / CL_PAUSE without a value, also when a
\* position comes with them; without a recognised action a position (0
\* included) selects CL_POS with the position in decimal; otherwise the call
\* raises a validation error and sends no control call.
CurtainCommand(a) ==
  CASE a.action = "open" -> <<Task(<<"CL_OPEN">>, <<>>)>>
    [] a.action = "close" -> <<Task(<<"CL_CLOSE">>, <<>>)>>
    [] a.action = "stop" -> <<Task(<<"CL_PAUSE">>, <<>>)>>
    [] OTHER -> IF a.position = NoneI THEN <<>>
                ELSE <<Task(<<"CL_POS">>, Str(a.position))>>

C13_WitnessZero ==
  /\ op = "async_set_curtain_state" /\ pc = "done" /\ outcome = "ok"
  /\ args.action = None /\ args.position = 0
  /\ ControlCalls[1].key = <<"CL_POS">> /\ ControlCalls[1].extra = <<"0">>

\* neither an action nor a position: the validation error, nothing sent
C13_WitnessInvalid ==
  /\ op = "async_set_curtain_state" /\ pc = "done" /\ outcome = "ValueError"
  /\ args.action = "toggle" /\ args.position = NoneI /\ ControlCalls = <<>>

\* the calls of the running operation that carry the given command key
CallsWith(k) == LET Is(c) == c.key = <<k>> IN SelectSeq(ControlCalls, Is)
Encoding == op = "async_set_dimmer_state" /\ pc \in {"control", "done"}

C14_WitnessPercent ==
  /\ Encoding /\ args.color_temp = 100 /\ outcome = "ok"
  /\ CallsWith("LAMP_CCT")[1].extra = <<"5", "0", "0">>

\* 150 and 1500 are in neither range
C14_WitnessRejected ==
  /\ Encoding /\ args.color_temp = 1500 /\ outcome = "ValueError" /\ netlog = <<>>

\* C15: for every brightness b in 0..100 the value sent with LAMP_BRI is
\* round(b * 2.54), the integer nearest to 254 * b / 100, and lies in 0..254.
C15_BrightnessIsRounded ==
  (Encoding /\ args.brightness \in 0..100) =>
    LET sent == CallsWith("LAMP_BRI")
        v == ParseInt(sent[1].extra)
        d == 100 * v - 254 * args.brightness
    IN /\ Len(sent) = 1
       /\ 0 <= v /\ v <= 254
       /\ 0 - 50 <= d /\ d <= 50

\* C16: mapping the encoded brightness back to 0..100 (divide by 2.54, round
\* to the nearest integer) gives a value within 1 of the input.
Nearest(num, den) == (2 * num + den) \div (2 * den)
BrightnessBack(v) == Nearest(100 * v, 254)

C16_BrightnessRoundTrip ==
  (Encoding /\ args.brightness \in 0..100) =>
    LET sent == CallsWith("LAMP_BRI")
        back == BrightnessBack(ParseInt(sent[1].extra))
    IN /\ Len(sent) = 1
       /\ back - args.brightness \in {0 - 1, 0, 1}

\* 99 is sent as int(251.46) = 251, which maps back to 99
C16_Witness ==
  /\ Encoding /\ args.brightness = 99 /\ outcome = "ok"
  /\ CallsWith("LAMP_BRI")[1].extra = <<"2", "5", "1">>
  /\ BrightnessBack(251) = 99

\* C17: rgb_hex is accepted only when it is exactly 6 hexadecimal characters
\* and is then sent upper-cased with LAMP_RGB; any other value raises a
\* validation error and sends no LAMP_RGB.
C17_RgbSixHexOnly ==
  (Encoding /\ args.rgb_hex # NoneS) =>
    LET h == args.rgb_hex
        sent == CallsWith("LAMP_RGB")
    IN IF Len(h) = 6 /\ \A i \in DOMAIN h : h[i] \in HexChars
         THEN /\ Len(sent) = 1 /\ outcome # "ValueError"
              /\ sent[1].extra = [i \in DOMAIN h |-> Upper(h[i])]
         ELSE /\ sent = <<>> /\ pc = "done" /\ outcome = "ValueError"

\* what the payload last handed to _parse_rgbcw holds
Parsed == shown.ent = "parsed"
Fields(raw) == [i \in {1, 5, 7, 9, 11, 13} |-> SubSeq(raw, 6 + i, 7 + i)]
WellFormed(raw) ==
  /\ Len(raw) >= 20 /\ SubSeq(raw, 1, 6) = RgbcwPrefix
  /\ \A i \in {1, 5, 7, 9, 11, 13} : \A j \in 1..2 : Fields(raw)[i][j] \in HexChars

\* C18: _parse_rgbcw scales the brightness byte and the red, green and blue
\* bytes with the same rule round(v / 100 * 255) for every v in 0..100, so
\* equal bytes decode to equal values.
C18_BrightnessScaledLikeChannels ==
  (Parsed /\ WellFormed(shown.value)) =>
    LET e == lamp[shown.yid]
        f == Fields(shown.value)
    IN /\ e.brightness = PyRound(IntBase16(f[5]) * 255, 100)
       /\ e.rgb[1] = PyRound(IntBase16(f[9]) * 255, 100)
       /\ e.rgb[2] = PyRound(IntBase16(f[11]) * 255, 100)
       /\ e.rgb[3] = PyRound(IntBase16(f[13]) * 255, 100)
       /\ f[5] = f[9] => e.brightness = e.rgb[1]

\* C19: a malformed payload (wrong prefix, fewer than 14 characters after the
\* prefix, a non-hex character in a decoded field) leaves the held power,
\* brightness, color temperature and RGB as they were.
C19_MalformedKeepsState ==
  (Parsed /\ ~WellFormed(shown.value)) => lamp[shown.yid] = shown.before

\* the four displayed attributes of an RGBCW lamp
RgbcwAttrs == {"power", "brightness", "color_temp", "rgb"}

\* what the last read displayed, what the last successful command set
\* locally, and what the latest snapshot reports, for one attribute
Displayed(a) ==
  CASE a = "power" -> shown.value
    [] a = "brightness" -> shown.brightness
    [] a = "color_temp" -> shown.color_temp
    [] a = "rgb" -> shown.rgb

LocallySet(y, a) ==
  CASE a = "power" -> lamp[y].set_tuple.state
    [] a = "brightness" -> lamp[y].set_tuple.brightness
    [] a = "color_temp" -> lamp[y].set_tuple.color_temp
    [] a = "rgb" -> lamp[y].set_tuple.rgb

Reported(y, a) ==
  LET dev == Latest(data, "LampRGBCW", y)
      fresh == NewLamp(dev)
  IN CASE a = "power" -> parse_state(dev.dinfo)
       [] a = "brightness" -> fresh.brightness
       [] a = "color_temp" -> fresh.color_temp
       [] a = "rgb" -> fresh.rgb

\* a read of an RGBCW lamp that was commanded before and is in the snapshot
RgbcwReadAfterControl(y) ==
  /\ shown.ent = "rgbcw"
  /\ shown.yid = y
  /\ lamp[y].set_at # NoTs
  /\ Latest(data, "LampRGBCW", y) # NoDev

FollowsSnapshot(y, a) ==
  Reported(y, a) # LocallySet(y, a) /\ Displayed(a) = Reported(y, a)

HeldLocally(y, a) ==
  Reported(y, a) # LocallySet(y, a) /\ Displayed(a) = LocallySet(y, a)

\* C20: after a successful manual control of an RGBCW lamp, the displayed
\* power, brightness, color temperature and RGB are gated by one timestamp
\* and one window: no read shows one of them following the latest snapshot
\* while another is still held at its locally set value.
C20_OneSharedWindow ==
  \A y \in DOMAIN lamp :
    RgbcwReadAfterControl(y) =>
      ~ \E a, b \in RgbcwAttrs : FollowsSnapshot(y, a) /\ HeldLocally(y, b)

\* an update of a climate entity that computed its polled values
ClimateUpdated == shown.ent = "climate" /\ shown.ran

\* C21: in async_update each of hvac_mode, temperature and fan_mode changes
\* its displayed value only to a polled value equal to the one of the previous
\* update and changed at least 10 s ago; an update that sees a changed polled
\* value leaves the displayed value alone; and the timer of an attribute whose
\* polled value did not change is not reset by the change of another.
C21_StableValuesAdopted ==
  ClimateUpdated =>
    LET e == climate[shown.yid]
        b == shown.before
        v == shown.value
    IN \A k \in VrvKeys :
         /\ e[k] # b[k] =>
              /\ e[k] = v[k]
              /\ b.polled[k] = v[k]
              /\ now - b.polled_at[k] >= VRV_CONFIRM_SECONDS
         /\ b.polled[k] # v[k] => e[k] = b[k]
         /\ b.polled[k] = v[k] => e.last_change[k] = b.last_change[k]

\* an update adopts a confirmed temperature while the hvac_mode timer of the
\* same update was just reset by a changed polled mode
C21_Witness ==
  /\ ClimateUpdated
  /\ climate[shown.yid].temperature # shown.before.temperature
  /\ shown.value.hvac_mode # shown.before.polled.hvac_mode

C21_WitnessChanged ==
  /\ ClimateUpdated
  /\ shown.before.polled.fan_mode \notin {"unset", shown.value.fan_mode}
  /\ shown.value.fan_mode # shown.before.fan_mode

\* the ids the returned kind -> devices map holds
ReturnedIds ==
  UNION {{fanout.returned[k][i].yid : i \in DOMAIN fanout.returned[k]} :
           k \in DOMAIN fanout.returned}

\* C22: in get_devices_by_hotel_room_name a failed room fetch does not abort
\* the batch: when the call returns, the devices of every room whose fetch
\* succeeded are in the returned kind -> devices map.
C22_FanoutKeepsSucceededRooms ==
  (fanout.pc = "done" /\ fanout.raised = "none") =>
    \A i \in DOMAIN fanout.rooms :
      fanout.status[i] = "ok" =>
        \A j \in DOMAIN fanout.served[i] : fanout.served[i][j].yid \in ReturnedIds

\* how many entries of the snapshot's buckets carry the id y
Occurrences(snap, y) ==
  LET RECURSIVE Sum(_)
      Sum(ks) == IF ks = {} THEN 0
                 ELSE LET k == CHOOSE x \in ks : TRUE
                      IN Cardinality({i \in DOMAIN snap.devices_by_type[k] :
                                        snap.devices_by_type[k][i].yid = y})
                         + Sum(ks \ {k})
  IN Sum(DOMAIN snap.devices_by_type)

SnapshotReturned == pc = "done" /\ op = "async_get_data" /\ outcome = "ok"

\* C23: in every snapshot async_get_data returns, each yid occurs at most
\* once across all buckets of devices_by_type, whatever lists the vendor
\* returns (the same device under two rooms or two hosts included).
C23_YidUniqueInSnapshot ==
  SnapshotReturned =>
    \A h \in DOMAIN vendor : \A r \in DOMAIN vendor[h].room :
      \A i \in DOMAIN vendor[h].room[r].devs :
        Occurrences(result, vendor[h].room[r].devs[i].yid) <= 1

\* a client operation has ended and one of its transport calls timed out:
\* its login, one of its control calls or the scene call, or the first list
\* call of the poll
TimedOut ==
  /\ pc = "done"
  /\ \/ lastLoginReply.net = "timeout"
     \/ lastCtl.net = "timeout"
     \/ outcome = "TimeoutError"

\* C24: a timeout of a transport call made through the client (the login, a
\* list call of the poll, a control call of a bundle) reaches the caller as
\* the client's CommunicationError.
C24_TimeoutIsCommunicationError ==
  TimedOut => outcome = "CommunicationError"

\* a press of a scene button with no press and no detected firing of that
\* scene in the preceding BUTTON_STATE_DEBOUNCE_SECONDS
PressOutsideWindow ==
  /\ button.press.at # NoTs
  /\ \/ button.press.before = NoTs
     \/ button.press.at - button.press.before >= BUTTON_STATE_DEBOUNCE_SECONDS

\* C25: a manual press of a scene button goes on to async_execute_scene
\* whenever no press and no detected firing of that scene happened in the
\* preceding 10 s; polls that detect no sinfo change never suppress it.
C25_PressOutsideWindowExecutes ==
  PressOutsideWindow => button.press.ran

\* a refresh has just ended with the listeners' run; shown.before holds the
\* platforms as they were before it
ListenerRan == shown.ent = "listener"

NewIds(p) == CurrentIds(p, data) \ shown.before[p].known
RemovedIds(p) == shown.before[p].known \ CurrentIds(p, data)

\* C28: after every run of a platform's listener its known_ids equals the
\* ids of that platform's kinds in the latest snapshot; every id newly
\* present has an entity (and its registry entries), every id no longer
\* present has lost its registry entries in that run.
C28_KnownIdsFollowSnapshot ==
  ListenerRan =>
    /\ \A p \in Platforms :
         /\ platform[p].known = CurrentIds(p, data)
         /\ \A id \in NewIds(p) : EntityUniqueIds(p, id) \subseteq platform[p].registry
         /\ \A id \in RemovedIds(p) : EntityUniqueIds(p, id) \cap platform[p].registry = {}
    /\ DOMAIN lamp = CurrentIds("light", data)
    /\ DOMAIN curtain = CurrentIds("cover", data)

\* a listener run in which the light and button platforms gained an id while
\* the sensor platform lost one
C28_Witness ==
  /\ ListenerRan
  /\ NewIds("light") # {} /\ RemovedIds("sensor") # {}
  /\ NewIds("button") # {}

\* the failed room fetches of the poll that has just ended, and the devices
\* the vendor holds in such a room
RoomFailed(h, r) == <<vendor[h].sn, vendor[h].room[r].name>> \in shown.served.failed
RoomDevices(h, r) ==
  {vendor[h].room[r].devs[i] : i \in DOMAIN vendor[h].room[r].devs}

PlatformOf(dpanel) ==
  CASE ContainsLamp(dpanel) -> "light"
    [] dpanel = "CurtainPG" -> "cover"
    [] dpanel = "Breaker" -> "switch"
    [] dpanel = "HumanSensor" -> "binary_sensor"
    [] dpanel = "IntelligentButler" -> "sensor"
    [] dpanel = "VRV" -> "climate"
    [] OTHER -> "none"

\* an entity of the device is still held by its platform
EntityHeld(d) ==
  LET p == PlatformOf(d.dpanel) IN
    IF p = "climate" THEN d.yid \in DOMAIN climate
    ELSE IF p = "none" THEN FALSE
    ELSE EntityUniqueIds(p, d.yid) \cap platform[p].registry # {}

\* the devices of a room the poll could not fetch have lost their entities,
\* and those a room listed again have entities created in this run: for the
\* platforms that follow the snapshot with a listener
ListenerPlatformsFollowRooms ==
  ListenerRan =>
    \A h \in DOMAIN vendor : \A r \in DOMAIN vendor[h].room :
      \A d \in RoomDevices(h, r) :
        LET p == PlatformOf(d.dpanel) IN
          p \in Platforms =>
            /\ RoomFailed(h, r) => ~EntityHeld(d)
            /\ d.yid \in NewIds(p) =>
                 /\ EntityUniqueIds(p, d.yid) \subseteq platform[p].registry
                 /\ p = "light" => lamp[d.yid].last_manual = NoTs

\* C29: one failed room fetch in a poll removes, in that poll, the registry
\* entries of all entities of that room.
C29_FailedRoomLosesItsEntities ==
  ListenerRan =>
    \A h \in DOMAIN vendor : \A r \in DOMAIN vendor[h].room :
      RoomFailed(h, r) => \A d \in RoomDevices(h, r) : ~EntityHeld(d)

\* C30: every light entity created for a device of a bucket whose kind
\* contains "Lamp" reports available = true while the device's yid is in the
\* latest snapshot, whatever its dpanel.
C30_LightAvailableWhileListed ==
  (shown.ent = "available" /\ shown.yid \in CurrentIds("light", data)) =>
    shown.available

\* a control handler of a lamp, an RGBCW lamp or a curtain awaits its client
\* call, and the call has not returned successfully
ManualCallers == LampCallers \cup RgbcwCallers \cup CoverCallers
ControlNotReturned == caller \in ManualCallers /\ ~(pc = "done" /\ outcome = "ok")

\* C27: from the call of a control handler of a lamp, an RGBCW lamp or a
\* curtain until its client call returns successfully, and for good when
\* the call raises, the entity's held state (on/off, brightness, color
\* temperature, RGB, position) and its last-manual timestamp do not change.
C27_RaisedControlLeavesEntity ==
  [][ControlNotReturned => (lamp' = lamp /\ curtain' = curtain)]_vars

\* the client call of a handler has raised on an entity that holds the
\* state and timestamp of an earlier successful control
C27_Witness ==
  /\ pc = "done" /\ outcome \notin {"ok", "none"}
  /\ \/ /\ caller = "lamp_off"
        /\ lamp[args.device].state /\ lamp[args.device].last_manual # NoTs
     \/ /\ caller \in CoverCallers
        /\ curtain[args.device].last_manual # NoTs

Finished(i) == running.op[i].pc = "done"

\* what holds of the token at every moment of operations run side by side
RaceSafe ==
  /\ running.logins > 0 => (token = running.last.tok /\ token_ts = running.last.ts)
  /\ \A i \in Ops2 :
       /\ \A k \in DOMAIN running.op[i].used :
            /\ running.op[i].used[k] # NoToken
            /\ running.op[i].used[k] \in running.issued
       /\ running.op[i].outcome = "AuthenticationError" <=> running.op[i].login = "failed"

\* C26: when operations test a stale token before any of their logins has
\* completed, each performs its own login; every one of them still ends,
\* the held (token, issued_at) is that of the successful login that finished
\* last, and every transport call carries a token a successful login
\* returned.
C26_UnserializedRefresh ==
  /\ []RaceSafe
  /\ \A i \in Ops2 : (running.op[i].pc # "idle") ~> Finished(i)

\* two logins for one expiry, both successful, the second issued at a later
\* time than the first, and both operations through all their calls
C26_Witness ==
  /\ running.raced /\ running.logins = 2
  /\ \A i \in Ops2 : running.op[i].login = "ok" /\ running.op[i].outcome = "ok"
  /\ \E i \in Ops2 : running.op[i].used[1] # running.op[i].used[BundleLen]
  /\ token_ts > 0

\* the vendor answers the topology fetch with ack 1 and no host
EmptyTopology(r) == fetch_sn_and_room_list(r) = Returns(<<>>)

\* C38: when the topology fetch succeeds with an empty host list,
\* async_get_data completes without raising, its snapshot has empty
\* devices_by_type and scenes_by_sn, and it issued no scene fetch and no
\* device fetch.
C38_EmptyTopologyEmptySnapshot ==
  [][\A r \in ListReplies({SnRoomList}) :
       (op = "async_get_data" /\ EmptyTopology(r) /\ TopologyReply(r)) =>
         /\ pc' = "done" /\ outcome' = "ok"
         /\ result'.devices_by_type = <<>> /\ result'.scenes_by_sn = <<>>
         /\ \A i \in DOMAIN netlog' :
              netlog'[i].call \notin {"fetch_scenes_by_sn", "fetch_devices_by_room"}]_vars

C38_Witness ==
  /\ SnapshotReturned /\ poll.list = <<>>
  /\ result.devices_by_type = <<>> /\ result.scenes_by_sn = <<>>
  /\ CallsOf("fetch_sn_and_room_list") = 1
  /\ CallsOf("fetch_scenes_by_sn") = 0 /\ CallsOf("fetch_devices_by_room") = 0

\* a device of a room response as the snapshot is to carry it
Carried(d, sn) ==
  [yid |-> d.yid, dpanel |-> d.dpanel, dinfo |-> d.dinfo, dnlp |-> d.dnlp,
   dcap |-> d.dcap, sn |-> sn]

\* the devices of panel k in the successful room responses, in the order the
\* responses came and, within a response, in the vendor's order
RECURSIVE Discovered(_, _)
Discovered(rooms, k) ==
  IF rooms = <<>> THEN <<>>
  ELSE LET n == Len(rooms)
           last == [i \in DOMAIN rooms[n].list |-> Carried(rooms[n].list[i], rooms[n].sn)]
           P(d) == (IF d.dpanel = None THEN "Unknown" ELSE d.dpanel) = k
       IN Discovered(SubSeq(rooms, 1, n - 1), k) \o SelectSeq(last, P)

RECURSIVE SumLen(_)
SumLen(seqs) == IF seqs = <<>> THEN 0 ELSE Len(Head(seqs)) + SumLen(Tail(seqs))

ServedPanels ==
  {IF served.rooms[i].list[j].dpanel = None THEN "Unknown"
   ELSE served.rooms[i].list[j].dpanel :
     <<i, j>> \in {ij \in (DOMAIN served.rooms) \X (1..4) :
                     ij[2] \in DOMAIN served.rooms[ij[1]].list}}

\* the devices in all buckets of a snapshot
BucketTotal(snap) ==
  LET RECURSIVE Sum(_)
      Sum(ks) == IF ks = {} THEN 0
                 ELSE LET k == CHOOSE x \in ks : TRUE
                      IN Len(snap.devices_by_type[k]) + Sum(ks \ {k})
  IN Sum(DOMAIN snap.devices_by_type)

HostIndex(sn) == CHOOSE h \in DOMAIN SnRoomList : SnRoomList[h].sn = sn

\* C37: in the snapshot built by process_rooms every device of a successful
\* room response appears once per time it was returned, in the bucket of its
\* dpanel ("Unknown" when absent), with the sn of its host, each bucket in
\* discovery order (host, then room, then the vendor's order in the room),
\* and the buckets hold as many devices as the successful responses.
C37_BucketsInDiscoveryOrder ==
  SnapshotReturned =>
    /\ \A i, j \in DOMAIN served.rooms :
         i < j => \/ HostIndex(served.rooms[i].sn) < HostIndex(served.rooms[j].sn)
                  \/ /\ served.rooms[i].sn = served.rooms[j].sn
                     /\ served.rooms[i].name < served.rooms[j].name
    /\ DOMAIN result.devices_by_type = ServedPanels
    /\ \A k \in ServedPanels : result.devices_by_type[k] = Discovered(served.rooms, k)
    /\ BucketTotal(result) = SumLen([i \in DOMAIN served.rooms |-> served.rooms[i].list])

C37_Witness ==
  /\ SnapshotReturned
  /\ Len(served.rooms) = 3
  /\ "Unknown" \in DOMAIN result.devices_by_type
  /\ Len(result.devices_by_type["Unknown"]) = 2
  /\ Len(result.devices_by_type["Lamp"]) = 5
  /\ result.devices_by_type["Lamp"][1].yid = 11
  /\ result.devices_by_type["Lamp"][2].yid = 11
  /\ result.devices_by_type["Lamp"][3].yid = 13
  /\ result.devices_by_type["Lamp"][5].sn = 2

\* a sub-intent of the bundle call in progress is outside what the client
\* accepts
InvalidSubIntent ==
  \/ /\ op = "async_set_dimmer_state"
     /\ \/ args.brightness # NoneI /\ ~(0 <= args.brightness /\ args.brightness <= 100)
        \/ /\ args.color_temp # NoneI
           /\ ~(2000 <= args.color_temp /\ args.color_temp <= 6500)
           /\ ~(0 <= args.color_temp /\ args.color_temp <= 100)
        \/ args.rgb_hex # NoneS /\ Len(args.rgb_hex) # 6
  \/ /\ op = "async_set_vrv_state"
     /\ args.temperature # NoneI
     /\ ~(16 <= args.temperature /\ args.temperature <= 30)

\* C35: when any sub-intent of an async_set_dimmer_state or
\* async_set_vrv_state call fails validation, no control_device call is
\* issued for any sub-intent of that call, the valid ones before it in the
\* bundle order included.
C35_ValidationAllOrNothing ==
  InvalidSubIntent => CallsOf("control_device") = 0 /\ tasks = <<>>

C35_Witness ==
  /\ pc = "done" /\ outcome = "ValueError"
  /\ op = "async_set_dimmer_state"
  /\ args.on = "True" /\ args.brightness = 50 /\ Len(args.rgb_hex) = 2
  /\ CallsOf("control_device") = 0

\* C34: async_turn_on and async_turn_off of a breaker issue one control
\* call through the API client (and, once the vendor acknowledged it, hold
\* the new state for LAMP_STATE_DEBOUNCE_SECONDS): the handler's step leaves
\* the client inside an operation, at its login or at its control call.
C34_BreakerControlCallsClient ==
  [][\A y \in DOMAIN breaker : \A on \in BOOLEAN :
       BreakerTurn(y, on) =>
         /\ op' # "none" /\ pc' \in {"login", "control"}
         /\ pc' = "control" => CallsOf("control_device")' = 1]_vars

\* a dnlp payload _parse_rgbcw decodes: the prefix, 14 characters after it,
\* and the five numeric fields in base 16
WellFormedDnlp(raw) ==
  /\ Len(raw) >= 20
  /\ SubSeq(raw, 1, 6) = <<"R", "G", "B", "C", "W", ":">>
  /\ \A i \in {11, 13, 15, 17, 19} : IntBase16(SubSeq(raw, i, i + 1)) # NoneI

OutsideDebounce(e, t) ==
  e.last_manual = NoTs \/ t - e.last_manual >= RGBCW_DEBOUNCE_SECONDS

\* C32: for an RGBCW lamp outside any debounce window, the is_on read equals
\* the power field of the latest well-formed dnlp payload (on exactly when
\* its first two hex characters are "03"), whatever the dinfo says.
C32_RgbcwIsOnFromPayload ==
  (shown.ent = "rgbcw" /\ OutsideDebounce(lamp[shown.yid], now)) =>
    LET dev == Latest(data, "LampRGBCW", shown.yid) IN
      (dev # NoDev /\ WellFormedDnlp(dev.dnlp)) =>
        shown.value = (SubSeq(dev.dnlp, 7, 8) = <<"0", "3">>)

\* the record of device y in bucket k of the latest snapshot
Record(k, y) == Latest(data, k, y)

\* C31: every stateful entity kind (lamp, RGBCW lamp, curtain, breaker,
\* climate) starts in Authoritative-Remote: from its creation until its first
\* successful manual control, every read of its displayed state equals the
\* value decoded from the device's record in the latest poll snapshot.
C31_StartsAuthoritativeRemote ==
  /\ (shown.ent = "lamp" /\ lamp[shown.yid].last_manual = NoTs
        /\ Record("Lamp", shown.yid) # NoDev) =>
       shown.value = parse_state(Record("Lamp", shown.yid).dinfo)
  /\ (shown.ent = "rgbcw" /\ lamp[shown.yid].last_manual = NoTs
        /\ Record("LampRGBCW", shown.yid) # NoDev
        /\ WellFormedDnlp(Record("LampRGBCW", shown.yid).dnlp)) =>
       shown.value = (SubSeq(Record("LampRGBCW", shown.yid).dnlp, 7, 8) = <<"0", "3">>)
  /\ (shown.ent = "curtain" /\ curtain[shown.yid].last_manual = NoTs
        /\ Record("CurtainPG", shown.yid) # NoDev) =>
       shown.value = parse_position(Record("CurtainPG", shown.yid).dinfo)
  /\ (shown.ent = "breaker" /\ breaker[shown.yid].last_manual = NoTs
        /\ Record("Breaker", shown.yid) # NoDev) =>
       shown.value = breaker_parse_state(Record("Breaker", shown.yid).dinfo)
  /\ (shown.ent = "climate_read" /\ Record("VRV", shown.yid) # NoDev
        /\ ~CapsMalformed(Record("VRV", shown.yid).dcap)) =>
       LET val == NewValues(climate[shown.yid], Record("VRV", shown.yid).dcap) IN
         /\ shown.hvac_mode = val.hvac_mode
         /\ shown.fan_mode = val.fan_mode
         /\ shown.temperature = val.temperature

\* the refresh ends and _handle_scene_changes runs on the snapshot in result
ButtonListenerRuns ==
  /\ button.watch /\ pc = "done" /\ caller = "coordinator" /\ outcome = "ok"
  /\ data # NoData /\ pc' = "idle"

\* the buttons that live through the listener's run
KeptButtons == DOMAIN button.ents \cap CurrentIds("button", result)
PolledSinfo(sid) == LastScene(ScenesNow(result), sid).sinfo

OutsideWindow(e) ==
  e.last_trigger = NoTs \/ now - e.last_trigger >= BUTTON_STATE_DEBOUNCE_SECONDS

C36_PressNotReportedBack ==
  [][ButtonListenerRuns =>
       \A sid \in KeptButtons :
         (/\ button.press.ran /\ button.press.sid = sid
          /\ button.ents[sid].last_sinfo = MANUAL_SINFO
          /\ PolledSinfo(sid) = button.press.seen) =>
           ~button.ents'[sid].fired]_vars

====
